---- MODULE Spec2Model ----
(***************************************************************************)
(* A model of the voidlight-markdown MCP server: the conversion engine's   *)
(* converter registry and attempt loop, the Text and Audio converters, and *)
(* the protocol server's tool handlers and batch loops.                    *)
(*                                                                         *)
(* Priorities are floats in the source (10.0, 0.0, 0.1, 0.5, 1.0, 2.0,     *)
(* 3.0); the model keeps them as integers scaled by ten (100, 0, 1, 5, 10, *)
(* 20, 30), which preserves every comparison the code makes.               *)
(***************************************************************************)
EXTENDS Integers, Sequences, FiniteSets, TLC

VARIABLES
    converters,   \* MarkItDown._converters: the registration list
    regPc,        \* position of MarkItDown.__init__: "builtins", "plugins", "ready"
    bi,           \* index of the next built-in _register_converters tries
    regCount      \* number of register_converter calls made so far

regVars == <<converters, regPc, bi, regCount>>

VARIABLES
    stream,           \* the bytes of the (seekable) input stream
    base_info,        \* the StreamInfo the caller passed to convert_stream
    magic,            \* FileTypeDetector: magic_available and what magic answers
    options,          \* MarkItDown._options
    guesses,          \* stream_info_guesses
    gi,               \* index of the guess the attempt loop is at
    ci,               \* index of the converter the attempt loop is at
    failed_attempts,  \* _convert_with_guesses's failed_attempts
    attempts,         \* history: every accepts/convert call made, in order
    engPc,            \* "start", "loop", "done"
    outcome           \* what convert_stream returned or raised

engRest == <<stream, base_info, magic, guesses, gi, ci,
             failed_attempts, attempts, engPc, outcome>>
engVars == <<engRest, options>>

VARIABLES
    srvPc,            \* the server: "off", "idle" (between calls), "batch" (in the loop)
    request,          \* the tool call being served, or the last one served
    reply,            \* what call_tool returned for it (or that it raised)
    engine_calls,     \* the engine operations this call has invoked, in order
    options_at_call,  \* MarkItDown._options as they were when the call arrived
    batch_i,          \* _handle_convert_batch: index of the next file_paths item
    results,          \* _handle_convert_batch: results
    errors            \* _handle_convert_batch: errors

srvVars == <<srvPc, request, reply, engine_calls, options_at_call, batch_i, results, errors>>

VARIABLES
    cliPc,            \* batch_command: "off", "start", "loop", "done", "exit", "raised"
    cli_args,         \* the parsed command line: files, output_dir and the flags
    cli_i,            \* index of the next file_paths item
    successful,       \* batch_command's successful counter
    failed,           \* batch_command's failed counter
    cli_log           \* history: every path convert_local was called with, in order

cliVars == <<cliPc, cli_args, cli_i, successful, failed, cli_log>>

VARIABLES
    auPc,             \* AudioConverter.convert: "off", "start", "tmpfile", "copy",
                      \* "prepare", "body", "finally", "done"
    deps,             \* whisper_available, openai_available, pydub_available
    au_extension,     \* stream_info.extension
    files,            \* the files of this conversion that are on disk
    audio_path,       \* what _prepare_audio returned
    tmp_created,      \* history: the temporary input file was created
    wav_produced,     \* history: the re-encoded copy was exported
    pending,          \* how the inner try ended: "result" or "raise"
    au_outcome        \* what convert returned or raised

audVars == <<auPc, deps, au_extension, files, audio_path, tmp_created, wav_produced,
             pending, au_outcome>>

VARIABLES
    txtPc,            \* TextConverter.convert: "off", "start", "done"
    korean_support,   \* DocumentConverter.korean_support
    text_stream,      \* the characters of the stream
    text_filename,    \* stream_info.filename
    text_result       \* what convert returned or raised

txtVars == <<txtPc, korean_support, text_stream, text_filename, text_result>>

VARIABLES
    duPc,                    \* convert_uri on a data: URI: "off", "start", "decode",
                             \* "engine", "done"
    du_uri,                \* the URI, a sequence of characters
    enable_korean_support,   \* MarkItDown.enable_korean_support
    du_parsed,               \* media_type, is_base64 and data of _convert_data_uri
    du_decoder,              \* history: which decoder ran, "base64" or "percent"
    du_result                \* what convert_uri returned or raised

duVars == <<duPc, du_uri, enable_korean_support, du_parsed, du_decoder, du_result>>

VARIABLES
    anPc,          \* analyze_structure after convert: "off", "headings", "images", "done"
    an_markdown,   \* result.markdown
    an_headings,   \* what _extract_headings returned
    an_result      \* what analyze_structure returned or raised

anVars == <<anPc, an_markdown, an_headings, an_result>>

VARIABLES
    detPc,         \* the detector round trip: "off", "start", "forward", "done"
    det_ext,       \* the extension given to detect_from_extension
    det_forward,   \* what detect_from_extension returned (<< >> for None)
    det_back       \* what detect_from_mimetype returned for its MIME type

detVars == <<detPc, det_ext, det_forward, det_back>>

VARIABLES
    nwPc,       \* normalize_whitespace applied twice: "off", "start", "once", "done"
    nw_text,    \* the text
    nw_once,    \* normalize_whitespace(text)
    nw_twice    \* normalize_whitespace(normalize_whitespace(text))

nwVars == <<nwPc, nw_text, nw_once, nw_twice>>

VARIABLES
    cfgPc,          \* configuration: "off", "manager", "saved", "reloaded", "file", "loaded", "validated",
                    \* "updated", "created"
    cfg_config,     \* the configuration of the manager that saves
    cfg_file,       \* the configuration file
    cfg_env,        \* the environment variables of env_mappings
    cfg_loaded,     \* the configuration of the manager constructed on the file
    cfg_warnings,   \* the warnings that manager logged
    cfg_printed,    \* what `config validate` printed: <<stream, text>>
    cfg_exit        \* its exit status

cfgVars == <<cfgPc, cfg_config, cfg_file, cfg_env, cfg_loaded, cfg_warnings, cfg_printed, cfg_exit>>

VARIABLES
    instPc,         \* installer: "off", "ready"
    inst_dir,       \* whether the directory of the host application exists
    inst_file,      \* the host configuration file
    inst_original,  \* the host configuration file before the first run
    inst_files,     \* the host configuration file after each run
    inst_returned   \* what each run returned

instVars == <<instPc, inst_dir, inst_file, inst_original, inst_files, inst_returned>>

VARIABLES
    hcPc,           \* health check: "off", "checks", "prompt", "exited"
    hc_ran,         \* the check functions called so far, in order
    hc_raised,      \* the places in `checks` of those that raised
    hc_results,     \* results
    hc_summary,     \* the summary printed: "none", "all passed", "some failed"
    hc_response,    \* the line read at the prompt, or the exception of input()
    hc_report,      \* the diagnostic report: "none", "written", "raised"
    hc_exit         \* the exit status: "none", "0", "1"

hcVars == <<hcPc, hc_ran, hc_raised, hc_results, hc_summary, hc_response, hc_report, hc_exit>>

VARIABLES
    ttlPc,          \* title: "off", "start", "converted", "optimized"
    ttl_korean,     \* korean_support of the converter
    ttl_candidate,  \* the title the converter found, or None
    ttl_title       \* the title of the result

ttlVars == <<ttlPc, ttl_korean, ttl_candidate, ttl_title>>

VARIABLES
    netPc,          \* _convert_http_uri: "off", "start", "fetched", "done"
    net_uri,        \* the http:// or https:// URI
    net_remote,     \* what the remote end does with the request
    net_info,       \* the descriptor built from the response, or None
    net_outcome     \* what _convert_http_uri returned or raised

netVars == <<netPc, net_uri, net_remote, net_info, net_outcome>>

VARIABLES
    accPc,          \* accepts: "off", "start", "told", "rewound", "read", "restored",
                    \* "returned"
    acc_fault,      \* the call of the stream that raises: one of StreamFaults
    acc_conv,       \* the built-in whose accepts is called
    acc_info,       \* the descriptor passed
    acc_bytes,      \* the content of the stream
    acc_pos,        \* the stream's read position
    acc_pos0,       \* the read position when accepts was called
    acc_current,    \* current_pos of TextConverter.accepts
    acc_sample,     \* sample of TextConverter.accepts
    acc_result      \* "none", "true", "false"

accVars == <<accPc, acc_fault, acc_conv, acc_info, acc_bytes, acc_pos, acc_pos0, acc_current,
             acc_sample, acc_result>>

VARIABLES
    pdfPc,          \* PDF conversion: "off", "configured", "constructed", "local", "done"
    pdf_via,        \* who constructs the converter: "server", "engine", "direct"
    pdf_config,     \* endpoint and key the server, engine or caller was given
    pdf_world,      \* pdfminer importable, and how the service and pdfminer fare
    pdf_converter,  \* the fields of the PdfConverter
    pdf_calls,      \* the extraction paths attempted, in order
    pdf_outcome     \* what PdfConverter.convert returned or raised

pdfVars == <<pdfPc, pdf_via, pdf_config, pdf_world, pdf_converter, pdf_calls, pdf_outcome>>

VARIABLES
    plgPc,            \* plugin manager: "off", "ready"
    loaded_plugins,   \* PluginManager.loaded_plugins: the instances, by number
    plugin_registry,  \* PluginManager.plugin_registry: name -> instance, 0 if absent
    plg_count,        \* the converters instantiated so far
    plg_last          \* the last call: its name, argument, return value and the
                      \* registry and list it found

plgVars == <<plgPc, loaded_plugins, plugin_registry, plg_count, plg_last>>

VARIABLES
    optPc,          \* option persistence: "off", "serving"
    opt_options,    \* MarkItDown._options of the server's engine
    opt_history,    \* the tool calls handled so far, oldest first
    opt_korean      \* _options.get('korean_optimization') as the conversion of
                    \* the last call saw it, "none" if it converted nothing

optVars == <<optPc, opt_options, opt_history, opt_korean>>

VARIABLES
    scPc,           \* the `server` subcommand: "off", "cli", "passed", "raised"
    sc_argv,        \* the arguments after `server`
    sc_file,        \* the configuration file at the resolved path
    sc_env,         \* the environment variables
    sc_kwargs       \* the keyword arguments create_server was called with

scVars == <<scPc, sc_argv, sc_file, sc_env, sc_kwargs>>

\* What the actions of each component leave alone: the other components.
\* The server and the command line write options themselves (set_options).
notReg == <<engVars, srvVars, cliVars, audVars, txtVars, duVars, anVars, detVars, nwVars, cfgVars, instVars, hcVars, ttlVars, netVars, accVars, pdfVars, plgVars, optVars, scVars>>
notEng == <<regVars, options, srvVars, cliVars, audVars, txtVars, duVars, anVars, detVars, nwVars, cfgVars, instVars, hcVars, ttlVars, netVars, accVars, pdfVars, plgVars, optVars, scVars>>
notSrv == <<regVars, engRest, cliVars, audVars, txtVars, duVars, anVars, detVars, nwVars, cfgVars, instVars, hcVars, ttlVars, netVars, accVars, pdfVars, plgVars, optVars, scVars>>
notCli == <<regVars, engRest, srvVars, audVars, txtVars, duVars, anVars, detVars, nwVars, cfgVars, instVars, hcVars, ttlVars, netVars, accVars, pdfVars, plgVars, optVars, scVars>>
notAud == <<regVars, engVars, srvVars, cliVars, txtVars, duVars, anVars, detVars, nwVars, cfgVars, instVars, hcVars, ttlVars, netVars, accVars, pdfVars, plgVars, optVars, scVars>>
notTxt == <<regVars, engVars, srvVars, cliVars, audVars, duVars, anVars, detVars, nwVars, cfgVars, instVars, hcVars, ttlVars, netVars, accVars, pdfVars, plgVars, optVars, scVars>>
notDu  == <<regVars, srvVars, cliVars, audVars, txtVars, anVars, detVars, nwVars, cfgVars, instVars, hcVars, ttlVars, netVars, accVars, pdfVars, plgVars, optVars, scVars>>
notAn  == <<regVars, engVars, srvVars, cliVars, audVars, txtVars, duVars, detVars, nwVars, cfgVars, instVars, hcVars, ttlVars, netVars, accVars, pdfVars, plgVars, optVars, scVars>>
notDet == <<regVars, engVars, srvVars, cliVars, audVars, txtVars, duVars, anVars, nwVars, cfgVars, instVars, hcVars, ttlVars, netVars, accVars, pdfVars, plgVars, optVars, scVars>>
notNw == <<regVars, engVars, srvVars, cliVars, audVars, txtVars, duVars, anVars, detVars, cfgVars, instVars, hcVars, ttlVars, netVars, accVars, pdfVars, plgVars, optVars, scVars>>
notCfg == <<regVars, engVars, srvVars, cliVars, audVars, txtVars, duVars, anVars, detVars, nwVars, instVars, hcVars, ttlVars, netVars, accVars, pdfVars, plgVars, optVars, scVars>>
notInst == <<regVars, engVars, srvVars, cliVars, audVars, txtVars, duVars, anVars, detVars, nwVars, cfgVars, hcVars, ttlVars, netVars, accVars, pdfVars, plgVars, optVars, scVars>>
notHc == <<regVars, engVars, srvVars, cliVars, audVars, txtVars, duVars, anVars, detVars, nwVars, cfgVars, instVars, ttlVars, netVars, accVars, pdfVars, plgVars, optVars, scVars>>
notTtl == <<regVars, engVars, srvVars, cliVars, audVars, txtVars, duVars, anVars, detVars, nwVars, cfgVars, instVars, hcVars, netVars, accVars, pdfVars, plgVars, optVars, scVars>>
notNet == <<regVars, engVars, srvVars, cliVars, audVars, txtVars, duVars, anVars, detVars, nwVars, cfgVars, instVars, hcVars, ttlVars, accVars, pdfVars, plgVars, optVars, scVars>>
notAcc == <<regVars, engVars, srvVars, cliVars, audVars, txtVars, duVars, anVars, detVars, nwVars, cfgVars, instVars, hcVars, ttlVars, netVars, pdfVars, plgVars, optVars, scVars>>
notPdf == <<regVars, engVars, srvVars, cliVars, audVars, txtVars, duVars, anVars, detVars, nwVars, cfgVars, instVars, hcVars, ttlVars, netVars, accVars, plgVars, optVars, scVars>>
notPlg == <<regVars, engVars, srvVars, cliVars, audVars, txtVars, duVars, anVars, detVars, nwVars, cfgVars, instVars, hcVars, ttlVars, netVars, accVars, pdfVars, optVars, scVars>>
notOpt == <<regVars, engVars, srvVars, cliVars, audVars, txtVars, duVars, anVars, detVars, nwVars, cfgVars, instVars, hcVars, ttlVars, netVars, accVars, pdfVars, plgVars, scVars>>
notSc == <<regVars, engVars, srvVars, cliVars, audVars, txtVars, duVars, anVars, detVars, nwVars, cfgVars, instVars, hcVars, ttlVars, netVars, accVars, pdfVars, plgVars, optVars>>

(***************************************************************************)
(* Bounds of the model.                                                    *)
(***************************************************************************)
MaxPlugins == 1
MaxExtra == 2
MaxStreamLen == 1
MaxBatch == 2
MaxTextLen == 3
MaxMarkdownLen == 4
MaxWhitespaceLen == 5
MaxServers == 2
MaxTitleSlack == 3
MaxDiscovered == 2
MaxInstances == 4
MaxCalls == 3



\* The most "#" a heading has in _extract_headings.
MaxHeadingLevel == 6

\* max_length of extract_title_from_content, the length past which
\* _format_title truncates, and the limit of _looks_like_heading.
TitleMaxLength == 100
FormatTitleLimit == 100
HeadingMaxLength == 100

(***************************************************************************)
(* Converter registry (core/markitdown.py).                                *)
(***************************************************************************)

\* ConverterRegistration: the converter (by class name and registration
\* number) and its priority.
ConverterRegistration(name, priority, id) ==
    [name |-> name, priority |-> priority, id |-> id]

\* The built-ins in the order _register_converters registers them.
Builtins ==
    << [name |-> "TextConverter",  priority |-> 100],
       [name |-> "PdfConverter",   priority |-> 0],
       [name |-> "DocxConverter",  priority |-> 1],
       [name |-> "ImageConverter", priority |-> 10],
       [name |-> "HtmlConverter",  priority |-> 20],
       [name |-> "AudioConverter", priority |-> 30] >>

\* _load_plugins registers every plugin at priority 0.5.
PluginPriority == 5

\* Priorities a caller of register_converter may pass.
Priorities == {0, 1, 5, 10, 100}

\* A plausible bug: the scan never stops at a greater entry, so the new
\* registration is always appended.
insert_pos_append(regs, priority, i) == Len(regs)

\* A plausible bug: the scan stops at the first entry that is not smaller,
\* so a new registration goes before the entries of its own priority.
RECURSIVE insert_pos_before_equal(_, _, _)
insert_pos_before_equal(regs, priority, i) ==
    IF i > Len(regs) THEN Len(regs)
    ELSE IF regs[i].priority >= priority THEN i - 1
    ELSE insert_pos_before_equal(regs, priority, i + 1)

\* The scan of register_converter: insert_pos is the 0-based index of the
\* first entry whose priority is strictly greater, else one past the last.
RECURSIVE insert_pos(_, _, _)
insert_pos(regs, priority, i) ==
    IF i > Len(regs) THEN Len(regs)
    ELSE IF regs[i].priority > priority THEN i - 1
    ELSE insert_pos(regs, priority, i + 1)

\* list.insert(insert_pos, registration)
register_converter(regs, reg) ==
    LET pos == insert_pos(regs, reg.priority, 1)
    IN  SubSeq(regs, 1, pos) \o <<reg>> \o SubSeq(regs, pos + 1, Len(regs))

RegInit ==
    /\ converters = << >>
    /\ regPc = "builtins"
    /\ bi = 1
    /\ regCount = 0

\* _register_converters: one built-in imported and registered.
RegisterBuiltin ==
    /\ regPc = "builtins"
    /\ bi <= Len(Builtins)
    /\ converters' = register_converter(converters,
            ConverterRegistration(Builtins[bi].name, Builtins[bi].priority, regCount + 1))
    /\ regCount' = regCount + 1
    /\ bi' = bi + 1
    /\ UNCHANGED regPc
    /\ UNCHANGED notReg

\* _register_converters: the import raised ImportError; the built-in is omitted.
SkipBuiltin ==
    /\ regPc = "builtins"
    /\ bi <= Len(Builtins)
    /\ bi' = bi + 1
    /\ UNCHANGED <<converters, regPc, regCount>>
    /\ UNCHANGED notReg

\* __init__ moves on from _register_converters to _load_plugins.
BuiltinsDone ==
    /\ regPc = "builtins"
    /\ bi > Len(Builtins)
    /\ regPc' = "plugins"
    /\ UNCHANGED <<converters, bi, regCount>>
    /\ UNCHANGED notReg

\* _load_plugins: one discovered plugin registered at priority 0.5.
RegisterPlugin ==
    /\ regPc = "plugins"
    /\ Cardinality({i \in 1..Len(converters) : converters[i].name = "Plugin"}) < MaxPlugins
    /\ converters' = register_converter(converters,
            ConverterRegistration("Plugin", PluginPriority, regCount + 1))
    /\ regCount' = regCount + 1
    /\ UNCHANGED <<regPc, bi>>
    /\ UNCHANGED notReg

\* __init__ returns.
PluginsDone ==
    /\ regPc = "plugins"
    /\ regPc' = "ready"
    /\ UNCHANGED <<converters, bi, regCount>>
    /\ UNCHANGED notReg

\* A caller registers a converter of its own at any priority.
RegisterConverter ==
    /\ regPc = "ready"
    /\ Cardinality({i \in 1..Len(converters) : converters[i].name = "Custom"}) < MaxExtra
    /\ \E p \in Priorities :
          converters' = register_converter(converters,
                ConverterRegistration("Custom", p, regCount + 1))
    /\ regCount' = regCount + 1
    /\ UNCHANGED <<regPc, bi>>
    /\ UNCHANGED notReg

RegNext ==
    \/ RegisterBuiltin
    \/ SkipBuiltin
    \/ BuiltinsDone
    \/ RegisterPlugin
    \/ PluginsDone
    \/ RegisterConverter

(***************************************************************************)
(* Stream descriptors (core/stream_info.py).  A MIME type "a/b" is the     *)
(* pair <<"a", "b">>, None is << >>; an extension, charset or filename is  *)
(* a string, None is the string "<None>" and "" is Python's empty string.  *)
(***************************************************************************)
None == "<None>"
NoMime == << >>

Truthy(s) == s # None /\ s # ""

\* Path(filename).suffix.lower() for the filenames of the model.
Suffix(filename) ==
    CASE filename = "doc.pdf"   -> ".pdf"
      [] filename = "notes.xyz" -> ".xyz"
      [] filename = "a.txt"     -> ".txt"
      [] filename = "a.pdf"     -> ".pdf"
      [] OTHER                  -> ""

\* str.lower() for the extensions of the model.
Lower(ext) == IF ext = ".PDF" THEN ".pdf" ELSE ext

\* StreamInfo(...) followed by __post_init__: a dot is put in front of an
\* extension that lacks one, and a missing extension is taken from the
\* filename's suffix.
StreamInfo(mimetype, extension, charset, filename) ==
    LET dotted == IF extension = "pdf" THEN ".pdf" ELSE extension
    IN  [mimetype  |-> mimetype,
         extension |-> IF Truthy(filename) /\ ~Truthy(dotted)
                       THEN Suffix(filename) ELSE dotted,
         charset   |-> charset,
         filename  |-> filename]

\* A plausible bug: equality that forgets the extension.
StreamInfoEqNoExt(a, b) ==
    a.mimetype = b.mimetype /\ a.filename = b.filename

\* A plausible bug: equality that looks at the charset too.
StreamInfoEqCharset(a, b) ==
    /\ a.mimetype = b.mimetype
    /\ a.extension = b.extension
    /\ a.filename = b.filename
    /\ a.charset = b.charset

\* StreamInfo.__eq__
StreamInfoEq(a, b) ==
    /\ a.mimetype = b.mimetype
    /\ a.extension = b.extension
    /\ a.filename = b.filename

\* StreamInfo.__str__: the fields it prints (a falsy field is left out).
StreamInfoStr(si) ==
    [mimetype  |-> si.mimetype,
     ext       |-> IF Truthy(si.extension) THEN si.extension ELSE "",
     filename  |-> IF Truthy(si.filename) THEN si.filename ELSE ""]

\* str.startswith on the part of a MIME type after the slash, for the
\* strings of the model.
RestStartsWith(rest, prefix) ==
    \/ rest = prefix
    \/ <<rest, prefix>> \in { <<"plain; charset=utf-8", "plain">> }

\* mimetype.startswith(mt) for mt = "a/b".
MimeStartsWith(mimetype, mt) ==
    /\ mimetype # NoMime
    /\ mimetype[1] = mt[1]
    /\ RestStartsWith(mimetype[2], mt[2])

\* StreamInfo.matches_extension
matches_extension(si, extensions) ==
    /\ Truthy(si.extension)
    /\ Lower(si.extension) \in {Lower(e) : e \in extensions}

\* StreamInfo.matches_mimetype
matches_mimetype(si, mimetypes) ==
    /\ si.mimetype # NoMime
    /\ \E mt \in mimetypes : MimeStartsWith(si.mimetype, mt)

(***************************************************************************)
(* File-type detector (utils/file_detector.py).                            *)
(***************************************************************************)

\* FileTypeDetector.extension_mapping, in the order the dict is written.
extension_mapping ==
    << <<".pdf",  <<"application", "pdf">> >>,
       <<".docx", <<"application", "vnd.openxmlformats-officedocument.wordprocessingml.document">> >>,
       <<".doc",  <<"application", "msword">> >>,
       <<".pptx", <<"application", "vnd.openxmlformats-officedocument.presentationml.presentation">> >>,
       <<".ppt",  <<"application", "vnd.ms-powerpoint">> >>,
       <<".xlsx", <<"application", "vnd.openxmlformats-officedocument.spreadsheetml.sheet">> >>,
       <<".xls",  <<"application", "vnd.ms-excel">> >>,
       <<".jpg",  <<"image", "jpeg">> >>,
       <<".jpeg", <<"image", "jpeg">> >>,
       <<".png",  <<"image", "png">> >>,
       <<".gif",  <<"image", "gif">> >>,
       <<".bmp",  <<"image", "bmp">> >>,
       <<".tiff", <<"image", "tiff">> >>,
       <<".webp", <<"image", "webp">> >>,
       <<".mp3",  <<"audio", "mpeg">> >>,
       <<".wav",  <<"audio", "wav">> >>,
       <<".m4a",  <<"audio", "mp4">> >>,
       <<".flac", <<"audio", "flac">> >>,
       <<".ogg",  <<"audio", "ogg">> >>,
       <<".html", <<"text", "html">> >>,
       <<".htm",  <<"text", "html">> >>,
       <<".xml",  <<"application", "xml">> >>,
       <<".json", <<"application", "json">> >>,
       <<".csv",  <<"text", "csv">> >>,
       <<".txt",  <<"text", "plain">> >>,
       <<".md",   <<"text", "markdown">> >>,
       <<".rtf",  <<"application", "rtf">> >>,
       <<".epub", <<"application", "epub+zip">> >>,
       <<".zip",  <<"application", "zip">> >>,
       <<".tar",  <<"application", "x-tar">> >>,
       <<".gz",   <<"application", "gzip">> >>,
       <<".7z",   <<"application", "x-7z-compressed">> >>,
       <<".rar",  <<"application", "x-rar-compressed">> >>,
       <<".msg",  <<"application", "vnd.ms-outlook">> >>,
       <<".eml",  <<"message", "rfc822">> >>,
       <<".ipynb", <<"application", "x-ipynb+json">> >>,
       <<".hwp",  <<"application", "haansofthwp">> >>,
       <<".hwpx", <<"application", "haansofthwp">> >> >>

\* extension in self.extension_mapping
InExtensionMapping(ext) ==
    \E i \in 1..Len(extension_mapping) : extension_mapping[i][1] = ext

\* self.extension_mapping[ext]
extension_mapping_get(ext) ==
    extension_mapping[CHOOSE i \in 1..Len(extension_mapping) :
                          extension_mapping[i][1] = ext][2]

\* mimetype_mapping = {v: k for k, v in extension_mapping.items()}: a key
\* sits where its MIME type first occurs and holds the last extension
\* that maps to it.
IsFirstOccurrence(i) ==
    \A j \in 1..(i - 1) : extension_mapping[j][2] # extension_mapping[i][2]

LastExtensionOf(mime) ==
    LET idx == {i \in 1..Len(extension_mapping) : extension_mapping[i][2] = mime}
    IN  extension_mapping[CHOOSE i \in idx : \A j \in idx : j <= i][1]

\* A plausible bug: the reverse mapping keeps the first extension.
mimetype_mapping_get_first(mime) ==
    IF \E i \in 1..Len(extension_mapping) : extension_mapping[i][2] = mime
    THEN extension_mapping[CHOOSE i \in 1..Len(extension_mapping) :
                              /\ extension_mapping[i][2] = mime
                              /\ IsFirstOccurrence(i)][1]
    ELSE None

\* self.mimetype_mapping.get(mimetype): the extension, or None.
mimetype_mapping_get(mime) ==
    IF \E i \in 1..Len(extension_mapping) : extension_mapping[i][2] = mime
    THEN LastExtensionOf(mime)
    ELSE None

\* detect_from_stream: None (here << >>) without python-magic or for an
\* empty header, else the sniffed MIME type and its extension.
detect_from_stream(bytes, mg) ==
    IF ~mg.available \/ Len(bytes) = 0 THEN << >>
    ELSE << StreamInfo(mg.sniffed, mimetype_mapping_get(mg.sniffed), None, None) >>

\* detect_from_filename
detect_from_filename(filename) ==
    IF InExtensionMapping(Lower(Suffix(filename)))
    THEN << StreamInfo(extension_mapping_get(Lower(Suffix(filename))),
                       Lower(Suffix(filename)), None, filename) >>
    ELSE << >>

\* detect_from_extension
detect_from_extension(extension) ==
    LET ext == Lower(IF extension = "pdf" THEN ".pdf" ELSE extension)
    IN  IF InExtensionMapping(ext)
        THEN << StreamInfo(extension_mapping_get(ext), ext, None, None) >>
        ELSE << >>

\* The partial match of detect_from_mimetype: the first key of
\* mimetype_mapping whose primary type the MIME type starts with.
PartialMatches(mimetype) ==
    {i \in 1..Len(extension_mapping) :
        IsFirstOccurrence(i) /\ mimetype[1] = extension_mapping[i][2][1]}

\* detect_from_mimetype
detect_from_mimetype(mimetype) ==
    IF Truthy(mimetype_mapping_get(mimetype))
    THEN << StreamInfo(mimetype, mimetype_mapping_get(mimetype), None, None) >>
    ELSE IF PartialMatches(mimetype) # {}
    THEN LET first == CHOOSE i \in PartialMatches(mimetype) :
                          \A j \in PartialMatches(mimetype) : i <= j
         IN  << StreamInfo(mimetype,
                           mimetype_mapping_get(extension_mapping[first][2]),
                           None, None) >>
    ELSE << StreamInfo(mimetype, None, None, None) >>

(***************************************************************************)
(* Conversion engine (core/markitdown.py): guesses and the attempt loop.   *)
(***************************************************************************)

\* `guess not in guesses`, then guesses.append(guess); `opt` is << >> for None.
\* A plausible bug: the "not in guesses" test is missing.
AppendAlways(gs, opt) ==
    IF Len(opt) = 0 THEN gs ELSE Append(gs, opt[1])

AppendIfNew(gs, opt) ==
    IF Len(opt) = 0 \/ (\E i \in 1..Len(gs) : StreamInfoEq(gs[i], opt[1]))
    THEN gs
    ELSE Append(gs, opt[1])

\* MarkItDown._get_stream_info_guesses
get_stream_info_guesses(bytes, base, mg) ==
    LET g0 == IF base.mimetype # NoMime \/ Truthy(base.extension)
              THEN <<base>> ELSE << >>
        g1 == AppendIfNew(g0, detect_from_stream(bytes, mg))
        g2 == IF Truthy(base.filename)
              THEN AppendIfNew(g1, detect_from_filename(base.filename)) ELSE g1
        g3 == IF Truthy(base.extension)
              THEN AppendIfNew(g2, detect_from_extension(base.extension)) ELSE g2
        g4 == IF base.mimetype # NoMime
              THEN AppendIfNew(g3, detect_from_mimetype(base.mimetype)) ELSE g3
    IN  IF Len(g4) = 0 THEN << StreamInfo(NoMime, None, None, None) >> ELSE g4

\* The sample TextConverter.accepts reads: file_stream.read(8192).
SampleSize == 8192
Sample(bytes) ==
    SubSeq(bytes, 1, IF Len(bytes) < SampleSize THEN Len(bytes) ELSE SampleSize)

\* A plausible bug: latin-1 treated like the other codecs, which refuse
\* the byte 0xFF.
DecodeOKAsciiOnly(encoding, bytes) ==
    \A i \in 1..Len(bytes) : bytes[i] < 128

\* bytes.decode(encoding) succeeds.  The bytes of the model are ASCII bytes
\* and 0xFF, which no encoding but latin-1 decodes.
DecodeOK(encoding, bytes) ==
    \/ encoding = "latin-1"
    \/ \A i \in 1..Len(bytes) : bytes[i] < 128

\* The encodings TextConverter.accepts tries, in order.
TextDecodeChain == <<"utf-8", "cp949", "euc-kr", "latin-1">>

\* supported_extensions / supported_mimetypes of the built-ins.
Supported(name) ==
    CASE name = "PdfConverter" ->
            [ext |-> {".pdf"}, mime |-> { <<"application", "pdf">> }]
      [] name = "DocxConverter" ->
            [ext |-> {".docx"},
             mime |-> { <<"application",
                          "vnd.openxmlformats-officedocument.wordprocessingml.document">> }]
      [] name = "ImageConverter" ->
            [ext |-> {".jpg", ".jpeg", ".png", ".gif", ".bmp", ".tiff", ".webp"},
             mime |-> { <<"image", "jpeg">>, <<"image", "png">>, <<"image", "gif">>,
                        <<"image", "bmp">>, <<"image", "tiff">>, <<"image", "webp">> }]
      [] name = "HtmlConverter" ->
            [ext |-> {".html", ".htm"},
             mime |-> { <<"text", "html">>, <<"application", "xhtml+xml">> }]
      [] name = "AudioConverter" ->
            [ext |-> {".mp3", ".wav", ".flac", ".m4a", ".ogg", ".wma"},
             mime |-> { <<"audio", "mpeg">>, <<"audio", "wav">>, <<"audio", "flac">>,
                        <<"audio", "mp4">>, <<"audio", "ogg">>, <<"audio", "x-ms-wma">> }]
      [] name = "TextConverter" ->
            [ext |-> {".txt", ".text", ".log", ".md", ".rst"},
             mime |-> { <<"text", "plain">>, <<"text", "markdown">>, <<"text", "x-rst">> }]

\* TextConverter.accepts: extension, MIME type, or the sample decodes.
TextAccepts(bytes, si) ==
    \/ matches_extension(si, Supported("TextConverter").ext)
    \/ matches_mimetype(si, Supported("TextConverter").mime)
    \/ \E k \in 1..Len(TextDecodeChain) : DecodeOK(TextDecodeChain[k], Sample(bytes))

\* PdfConverter / DocxConverter / ImageConverter / HtmlConverter /
\* AudioConverter .accepts: MIME type or extension.
DescriptorAccepts(name, si) ==
    \/ matches_mimetype(si, Supported(name).mime)
    \/ matches_extension(si, Supported(name).ext)

IsBuiltin(name) == \E k \in 1..Len(Builtins) : Builtins[k].name = name

\* What converter.accepts(stream, stream_info) can do: return True or False,
\* or raise.  A built-in's answer is fixed by its code; a plugin's is its own.
AcceptsOutcomes(name, bytes, si) ==
    IF name = "TextConverter"
    THEN {IF TextAccepts(bytes, si) THEN "true" ELSE "false"}
    ELSE IF IsBuiltin(name)
    THEN {IF DescriptorAccepts(name, si) THEN "true" ELSE "false"}
    ELSE {"true", "false", "raise"}

\* The codecs Python knows, among the charsets of the model.
KnownCodecs == {"utf-8", "cp949", "euc-kr", "latin-1", "ISO-8859-1"}

\* read_stream_with_encoding: content.decode(encoding) raises LookupError
\* for an unknown codec (only UnicodeDecodeError is caught), unless the
\* content is empty: decoding no bytes gives "" without looking the codec
\* up.  Otherwise the fallback chain ends in latin-1 and a decoded text
\* comes back.
ReadStreamRaises(charset, bytes) ==
    Truthy(charset) /\ charset \notin KnownCodecs /\ bytes # << >>

\* What converter.convert(stream, stream_info) can do: return a result or
\* raise.  TextConverter fails exactly when reading the stream fails; the
\* others depend on their libraries and on the content.
ConvertOutcomes(name, bytes, si) ==
    IF name = "TextConverter"
    THEN {IF ReadStreamRaises(si.charset, bytes) THEN "raise" ELSE "ok"}
    ELSE {"ok", "raise"}

\* The next (guess, converter) pair of the two nested for loops.
NextPair(g, c, regs) ==
    IF c < Len(regs) THEN <<g, c + 1>> ELSE <<g + 1, 1>>

\* A plausible bug: a break out of the inner loop after a failure, so the
\* rest of the converters are not tried for this guess.
NextPairAfterFailureSkips(g, c, regs) == <<g + 1, 1>>

\* Where the loop goes after an exception was recorded.
NextPairAfterFailure(g, c, regs) == NextPair(g, c, regs)

\* The loops are over: no guess left, or no converter registered at all.
LoopOver == gi > Len(guesses) \/ Len(converters) = 0

\* One entry of failed_attempts.
FailedAttempt(name, si, error) ==
    [converter |-> name, stream_info |-> si, error |-> error]

\* A plausible bug: the message leaves the failures out.
error_msg_without_failures(gs, fails) ==
    [guessed |-> [i \in 1..Len(gs) |-> StreamInfoStr(gs[i])], failed |-> << >>]

\* error_msg of _convert_with_guesses: the guessed types and, if any, the
\* failed attempts.
error_msg(gs, fails) ==
    [guessed |-> [i \in 1..Len(gs) |-> StreamInfoStr(gs[i])], failed |-> fails]

DefaultOptions ==
    [include_metadata |-> FALSE, extract_images |-> FALSE, korean_optimization |-> FALSE]

NoOutcome == [kind |-> "none"]

\* The registry after registering `list` in order.
RECURSIVE RegisterAll(_, _, _)
RegisterAll(regs, list, k) ==
    IF k > Len(list) THEN regs
    ELSE RegisterAll(register_converter(regs,
                        ConverterRegistration(list[k].name, list[k].priority, k)),
                     list, k + 1)

APlugin == [name |-> "Plugin", priority |-> PluginPriority]

\* The registries the engine runs with in the model: the built-ins, the
\* built-ins and a plugin, a plugin and PDF only (the other imports failed),
\* and none (enable_builtins = False, no plugin).
EngineRegistries ==
    { RegisterAll(<< >>, Builtins, 1),
      RegisterAll(<< >>, Builtins \o <<APlugin>>, 1),
      RegisterAll(<< >>, <<Builtins[2], APlugin>>, 1),
      << >> }

Bytes == {65, 255}

RECURSIVE SeqsUpTo(_, _)
SeqsUpTo(S, n) ==
    IF n = 0 THEN { << >> }
    ELSE LET shorter == SeqsUpTo(S, n - 1)
         IN  shorter \cup {Append(s, x) : s \in shorter, x \in S}

Mimes == { NoMime, <<"application", "pdf">>, <<"text", "plain; charset=utf-8">>,
           <<"application", "x-unknown">> }
Exts == { None, ".pdf", ".xyz", ".txt" }
Charsets == { None, "bogus" }
Filenames == { None, "notes.xyz", "doc.pdf" }
Magics == { [available |-> FALSE, sniffed |-> NoMime] } \cup
          { [available |-> TRUE, sniffed |-> m] :
                m \in { <<"application", "pdf">>, <<"text", "plain">>,
                        <<"application", "octet-stream">> } }

EngIdle ==
    /\ stream = << >>
    /\ base_info = StreamInfo(NoMime, None, None, None)
    /\ magic = [available |-> FALSE, sniffed |-> NoMime]
    /\ options = DefaultOptions
    /\ guesses = << >>
    /\ gi = 0
    /\ ci = 0
    /\ failed_attempts = << >>
    /\ attempts = << >>
    /\ engPc = "idle"
    /\ outcome = NoOutcome

EngInit ==
    /\ converters \in EngineRegistries
    /\ regPc = "ready"
    /\ bi = Len(Builtins) + 1
    /\ regCount = Len(converters)
    /\ stream \in SeqsUpTo(Bytes, MaxStreamLen)
    /\ base_info \in {StreamInfo(m, e, c, f) :
                        m \in Mimes, e \in Exts, c \in Charsets, f \in Filenames}
    /\ magic \in Magics
    /\ options = DefaultOptions
    /\ guesses = << >>
    /\ gi = 0
    /\ ci = 0
    /\ failed_attempts = << >>
    /\ attempts = << >>
    /\ engPc = "start"
    /\ outcome = NoOutcome

\* convert_stream: build the guesses and enter _convert_with_guesses.
ConvertStream ==
    /\ engPc = "start"
    /\ guesses' = get_stream_info_guesses(stream, base_info, magic)
    /\ gi' = 1
    /\ ci' = 1
    /\ engPc' = "loop"
    /\ UNCHANGED <<stream, base_info, magic, failed_attempts, attempts, outcome>>
    /\ UNCHANGED notEng

Attempt(acc, conv) == [guess |-> gi, conv |-> ci, accepts |-> acc, convert |-> conv]

\* accepts returned False: on to the next pair.
AcceptsFalse ==
    /\ engPc = "loop" /\ ~LoopOver
    /\ "false" \in AcceptsOutcomes(converters[ci].name, stream, guesses[gi])
    /\ attempts' = Append(attempts, Attempt("false", "none"))
    /\ gi' = NextPair(gi, ci, converters)[1]
    /\ ci' = NextPair(gi, ci, converters)[2]
    /\ UNCHANGED <<stream, base_info, magic, guesses, failed_attempts,
                   engPc, outcome>>
    /\ UNCHANGED notEng

\* accepts raised: the exception is recorded, on to the next pair.
AcceptsRaises ==
    /\ engPc = "loop" /\ ~LoopOver
    /\ "raise" \in AcceptsOutcomes(converters[ci].name, stream, guesses[gi])
    /\ attempts' = Append(attempts, Attempt("raise", "none"))
    /\ failed_attempts' = Append(failed_attempts,
            FailedAttempt(converters[ci].name, guesses[gi], "accepts failed"))
    /\ gi' = NextPairAfterFailure(gi, ci, converters)[1]
    /\ ci' = NextPairAfterFailure(gi, ci, converters)[2]
    /\ UNCHANGED <<stream, base_info, magic, guesses, engPc, outcome>>
    /\ UNCHANGED notEng

\* accepts returned True and convert returned: post-process and return.
ConvertSucceeds ==
    /\ engPc = "loop" /\ ~LoopOver
    /\ "true" \in AcceptsOutcomes(converters[ci].name, stream, guesses[gi])
    /\ "ok" \in ConvertOutcomes(converters[ci].name, stream, guesses[gi])
    /\ attempts' = Append(attempts, Attempt("true", "ok"))
    /\ outcome' = [kind |-> "result",
                   converter |-> converters[ci].name,
                   guess |-> gi,
                   conv |-> ci,
                   korean_optimized |-> options.korean_optimization]
    /\ engPc' = "done"
    /\ UNCHANGED <<stream, base_info, magic, guesses, gi, ci, failed_attempts>>
    /\ UNCHANGED notEng

\* accepts returned True and convert raised: recorded, on to the next pair.
ConvertRaises ==
    /\ engPc = "loop" /\ ~LoopOver
    /\ "true" \in AcceptsOutcomes(converters[ci].name, stream, guesses[gi])
    /\ "raise" \in ConvertOutcomes(converters[ci].name, stream, guesses[gi])
    /\ attempts' = Append(attempts, Attempt("true", "raise"))
    /\ failed_attempts' = Append(failed_attempts,
            FailedAttempt(converters[ci].name, guesses[gi], "convert failed"))
    /\ gi' = NextPairAfterFailure(gi, ci, converters)[1]
    /\ ci' = NextPairAfterFailure(gi, ci, converters)[2]
    /\ UNCHANGED <<stream, base_info, magic, guesses, engPc, outcome>>
    /\ UNCHANGED notEng

\* Every combination tried: raise UnsupportedFormatException(error_msg).
Exhausted ==
    /\ engPc = "loop" /\ LoopOver
    /\ outcome' = [kind |-> "UnsupportedFormatException",
                   message |-> error_msg(guesses, failed_attempts)]
    /\ engPc' = "done"
    /\ UNCHANGED <<stream, base_info, magic, guesses, gi, ci,
                   failed_attempts, attempts>>
    /\ UNCHANGED notEng

EngNext ==
    \/ ConvertStream
    \/ AcceptsFalse
    \/ AcceptsRaises
    \/ ConvertSucceeds
    \/ ConvertRaises
    \/ Exhausted

(***************************************************************************)
(* The protocol server (server.py) and the engine entry points it calls.   *)
(* A text is a sequence of string fragments, so that f"File not found:     *)
(* {file_path}" is <<"File not found: ", file_path>>.  Python's None for   *)
(* an absent argument is Absent.  The file system and the network are a    *)
(* fixed environment: which paths exist, which of them can be read and     *)
(* converted, which hosts answer.                                          *)
(***************************************************************************)
Absent == "<absent>"

\* Python's "not v" for an optional string argument.
Falsy(v) == v = Absent \/ v = ""

LocalPaths == { "good.txt", "junk.bin", "locked.txt", "gone.txt" }
FileUris   == { "file://gone.txt" }
DataUris   == { "data:nocomma" }
HttpUris   == { "http://up/doc.html", "http://down/doc.html" }
Sources    == LocalPaths \cup FileUris \cup DataUris \cup HttpUris

\* uri.startswith(prefix) for the prefixes convert_uri asks about.
startswith(uri, prefix) ==
    CASE prefix = "file://" -> uri \in FileUris
      [] prefix = "data:"   -> uri \in DataUris
      [] prefix = "http"    -> uri \in HttpUris
      [] OTHER              -> FALSE

\* uri[7:] of a file:// URI.
StripFileScheme(uri) ==
    CASE uri = "file://gone.txt" -> "gone.txt"
      [] OTHER                   -> uri

\* Path(p).exists()
PathExists(p) == p \in { "good.txt", "junk.bin", "locked.txt" }

\* The classes of core/exceptions.py that derive from MarkItDownException.
MarkItDownExceptions ==
    { "UnsupportedFormatException", "FileConversionException", "MissingDependencyException",
      "NetworkException", "AuthenticationException", "ConfigurationException" }

\* The exception classes the handlers tell apart, with their base classes.
Bases(cls) ==
    CASE cls \in MarkItDownExceptions -> { cls, "MarkItDownException", "Exception" }
      [] cls = "MarkItDownException" -> { "MarkItDownException", "Exception" }
      [] cls = "FileNotFoundError"   -> { "FileNotFoundError", "OSError", "Exception" }
      [] cls = "PermissionError"     -> { "PermissionError", "OSError", "Exception" }
      [] OTHER                       -> { cls, "Exception" }

\* "except cls" catches e.
IsInstance(e, cls) == cls \in Bases(e.kind)

Raised(cls, msg) == [kind |-> cls, msg |-> msg, markdown |-> << >>, metadata |-> FALSE]
Returned(markdown) == [kind |-> "ok", msg |-> << >>, markdown |-> markdown, metadata |-> TRUE]

\* convert_stream on the content behind a source, as far as the server sees it.
convert_stream_of(src) ==
    IF src = "junk.bin"
    THEN Raised("UnsupportedFormatException", <<"Could not convert stream. ", src>>)
    ELSE Returned(<<"markdown of ", src>>)

convert_local(file_path) ==
    IF ~PathExists(file_path)
    THEN Raised("FileNotFoundError", <<"File not found: ", file_path>>)
    ELSE IF file_path = "locked.txt"
    THEN Raised("PermissionError", <<"[Errno 13] Permission denied: ", file_path>>)
    ELSE convert_stream_of(file_path)

convert_data_uri(data_uri) ==
    IF data_uri = "data:nocomma"
    THEN Raised("ValueError", <<"not enough values to unpack (expected 2, got 1)">>)
    ELSE convert_stream_of(data_uri)

convert_http_uri(uri) ==
    IF uri = "http://down/doc.html"
    THEN Raised("MarkItDownException", <<"Failed to fetch URI ", uri, ": ", "connection refused">>)
    ELSE convert_stream_of(uri)

convert_uri(uri) ==
    IF startswith(uri, "file://") THEN convert_local(StripFileScheme(uri))
    ELSE IF startswith(uri, "data:") THEN convert_data_uri(uri)
    ELSE IF startswith(uri, "http") THEN convert_http_uri(uri)
    ELSE convert_local(uri)

\* MarkItDown.convert for a string source.
convert(source) ==
    IF PathExists(source) THEN convert_local(source) ELSE convert_uri(source)

\* analyze_structure converts and then measures the Markdown; the pattern of
\* _extract_images does not compile, so the measuring ends in re.error.
analyze_structure(source) ==
    LET result == convert(source)
    IN  IF result.kind = "ok"
        THEN Raised("re.error", <<"unbalanced parenthesis at position 12">>)
        ELSE result

\* dict.update: the keys of kwargs are set, the others kept.
\* A plausible bug: every call starts from the default options.
set_options_from_defaults(opts, kwargs) ==
    [k \in (DOMAIN DefaultOptions) \cup (DOMAIN kwargs) |->
        IF k \in DOMAIN kwargs THEN kwargs[k] ELSE DefaultOptions[k]]

set_options(opts, kwargs) ==

    [k \in (DOMAIN opts) \cup (DOMAIN kwargs) |->
        IF k \in DOMAIN kwargs THEN kwargs[k] ELSE opts[k]]

\* options.get(key) of a request's options map.
OptionGet(map, key) == IF key \in DOMAIN map THEN map[key] ELSE FALSE

NoOptions == [k \in {} |-> TRUE]

\* arguments.get("options", {}): the map given, {} when absent, None when the
\* caller sent null.
OptionsArgs ==
    { [given |-> "absent", map |-> NoOptions], [given |-> "null", map |-> NoOptions] } \cup
    { [given |-> "map", map |-> m] :
        m \in { [k \in {"include_metadata"} |-> TRUE],
                [k \in {"verbose"} |-> TRUE] } }

Call(op, arg) == <<op, arg>>

NoReply == [kind |-> "none", isError |-> FALSE, content |-> << >>,
            exc |-> "", summary |-> <<0, 0, 0>>]
Result(isError, content) ==
    [kind |-> "result", isError |-> isError, content |-> content,
     exc |-> "", summary |-> <<0, 0, 0>>]
ErrorResult(text) == Result(TRUE, <<text>>)
Propagated(e) ==
    [kind |-> "raised", isError |-> FALSE, content |-> <<e.msg>>,
     exc |-> e.kind, summary |-> <<0, 0, 0>>]

\* What a handler does: its return value (or the exception that leaves it),
\* the option map afterwards, and the engine operations it invoked.
Handled(r, opts, calls) == [reply |-> r, options |-> opts, calls |-> calls]

\* set_options(**None): the call itself fails before the engine is entered.
NullOptions == Raised("TypeError", <<"argument after ** must be a mapping, not NoneType">>)

\* The response a conversion handler builds from a result.
ResponseParts(head, options_arg, result) ==
    IF OptionGet(options_arg.map, "include_metadata") /\ result.metadata
    THEN << <<"# Converted: ", head>> \o result.markdown, <<"## Metadata">> >>
    ELSE << <<"# Converted: ", head>> \o result.markdown >>

\* A plausible bug: the options are applied before the input is checked.
handle_convert_file_options_first(arguments, opts) ==
    Handled(IF Falsy(arguments.file_path)
            THEN ErrorResult(<<"file_path is required">>)
            ELSE ErrorResult(<<"File not found: ", arguments.file_path>>),
            set_options(opts, arguments.options.map),
            << Call("set_options", "") >>)

handle_convert_file(arguments, opts) ==
    LET file_path == arguments.file_path
        result == convert_local(file_path)
        calls == << Call("set_options", ""), Call("convert_local", file_path) >>
        opts2 == set_options(opts, arguments.options.map)
    IN  IF Falsy(file_path)
        THEN Handled(ErrorResult(<<"file_path is required">>), opts, << >>)
        ELSE IF arguments.options.given = "null"
        THEN Handled(Propagated(NullOptions), opts, << >>)
        ELSE IF result.kind = "ok"
        THEN Handled(Result(FALSE, ResponseParts(file_path, arguments.options, result)),
                     opts2, calls)
        ELSE IF IsInstance(result, "FileNotFoundError")
        THEN Handled(ErrorResult(<<"File not found: ", file_path>>), opts2, calls)
        ELSE IF IsInstance(result, "UnsupportedFormatException")
        THEN Handled(ErrorResult(<<"Unsupported format: ">> \o result.msg), opts2, calls)
        ELSE IF IsInstance(result, "MarkItDownException")
        THEN Handled(ErrorResult(<<"Conversion error: ">> \o result.msg), opts2, calls)
        ELSE Handled(Propagated(result), opts2, calls)

\* A plausible bug: the handler knows no "Unsupported format" case.
handle_convert_url_one_text(arguments, opts) ==
    LET result == convert_uri(arguments.url)
    IN  Handled(IF Falsy(arguments.url) THEN ErrorResult(<<"url is required">>)
                ELSE IF result.kind = "ok" THEN Result(FALSE, << result.markdown >>)
                ELSE ErrorResult(<<"Conversion error: ">> \o result.msg),
                opts, << >>)

handle_convert_url(arguments, opts) ==
    LET url == arguments.url
        result == convert_uri(url)
        calls == << Call("set_options", ""), Call("convert_uri", url) >>
        opts2 == set_options(opts, arguments.options.map)
    IN  IF Falsy(url)
        THEN Handled(ErrorResult(<<"url is required">>), opts, << >>)
        ELSE IF arguments.options.given = "null"
        THEN Handled(Propagated(NullOptions), opts, << >>)
        ELSE IF result.kind = "ok"
        THEN Handled(Result(FALSE, ResponseParts(url, arguments.options, result)),
                     opts2, calls)
        ELSE IF IsInstance(result, "UnsupportedFormatException")
        THEN Handled(ErrorResult(<<"Unsupported format: ">> \o result.msg), opts2, calls)
        ELSE IF IsInstance(result, "MarkItDownException")
        THEN Handled(ErrorResult(<<"Conversion error: ">> \o result.msg), opts2, calls)
        ELSE Handled(Propagated(result), opts2, calls)

handle_analyze_document(arguments, opts) ==
    LET file_path == arguments.file_path
        analysis == analyze_structure(file_path)
        calls == << Call("analyze_structure", file_path) >>
    IN  IF Falsy(file_path)
        THEN Handled(ErrorResult(<<"file_path is required">>), opts, << >>)
        ELSE IF analysis.kind = "ok"
        THEN Handled(Result(FALSE, << <<"# Document Analysis: ", file_path>> \o analysis.markdown >>),
                     opts, calls)
        ELSE IF IsInstance(analysis, "FileNotFoundError")
        THEN Handled(ErrorResult(<<"File not found: ", file_path>>), opts, calls)
        ELSE IF IsInstance(analysis, "Exception")
        THEN Handled(ErrorResult(<<"Analysis error: ">> \o analysis.msg), opts, calls)
        ELSE Handled(Propagated(analysis), opts, calls)

handle_get_supported_formats(arguments, opts) ==
    Handled(Result(FALSE, << <<"# Supported Formats">> >>), opts,
            << Call("get_supported_formats", "") >>)

ToolNames == { "convert_file", "convert_url", "analyze_document",
               "get_supported_formats", "convert_batch" }

\* The if/elif chain of call_tool, for the tools that answer in one step.
dispatch(name, arguments, opts) ==
    CASE name = "convert_file"          -> handle_convert_file(arguments, opts)
      [] name = "convert_url"           -> handle_convert_url(arguments, opts)
      [] name = "analyze_document"      -> handle_analyze_document(arguments, opts)
      [] name = "get_supported_formats" -> handle_get_supported_formats(arguments, opts)
      [] OTHER -> Handled(ErrorResult(<<"Unknown tool: ", name>>), opts, << >>)

\* A plausible bug: call_tool without its "except Exception".
call_tool_without_except(name, arguments, opts) == dispatch(name, arguments, opts)

\* call_tool: the dispatch inside "try", and "except Exception" around it.
call_tool(name, arguments, opts) ==
    LET h == dispatch(name, arguments, opts)
    IN  IF h.reply.kind = "raised" /\ "Exception" \in Bases(h.reply.exc)
        THEN Handled(ErrorResult(<<"Error: ">> \o h.reply.content[1]), h.options, h.calls)
        ELSE h

\* The argument maps a client may send: at most one of the inputs, any
\* options, any output directory.
OutputDirs == { Absent, "out", "/proc/out" }
BatchPaths == { "good.txt", "junk.bin", "gone.txt" }
PathSeqs(n) == UNION { [1..k -> BatchPaths] : k \in 0..n }
Arguments(fp, u, fps, od, o) ==
    [file_path |-> fp, url |-> u, file_paths |-> fps, output_dir |-> od, options |-> o]
InputArguments ==
    { Arguments(fp, Absent, << >>, Absent, o) :
        fp \in {Absent, ""} \cup Sources, o \in OptionsArgs } \cup
    { Arguments(Absent, u, << >>, Absent, o) :
        u \in {""} \cup Sources, o \in OptionsArgs }
BatchArguments ==
    { Arguments(Absent, Absent, fps, od, o) :
        fps \in PathSeqs(MaxBatch), od \in OutputDirs, o \in OptionsArgs }

NoRequest == [name |-> "", arguments |-> Arguments(Absent, Absent, << >>, Absent,
                                                   [given |-> "absent", map |-> NoOptions])]

SrvOff ==
    /\ srvPc = "off"
    /\ request = NoRequest
    /\ reply = NoReply
    /\ engine_calls = << >>
    /\ options_at_call = DefaultOptions
    /\ batch_i = 0
    /\ results = << >>
    /\ errors = << >>

\* One call of call_tool for a tool that answers in one step.
Serve(name, arguments) ==
    LET h == call_tool(name, arguments, options)
    IN  /\ request' = [name |-> name, arguments |-> arguments]
        /\ options_at_call' = options
        /\ reply' = h.reply
        /\ options' = h.options
        /\ engine_calls' = h.calls
        /\ UNCHANGED <<srvPc, batch_i, results, errors>>
        /\ UNCHANGED notSrv

CallConvertFile ==
    /\ srvPc = "idle"
    /\ \E a \in InputArguments : Serve("convert_file", a)
CallConvertUrl ==
    /\ srvPc = "idle"
    /\ \E a \in InputArguments : Serve("convert_url", a)
CallAnalyzeDocument ==
    /\ srvPc = "idle"
    /\ \E a \in InputArguments : Serve("analyze_document", a)
CallGetSupportedFormats ==
    /\ srvPc = "idle"
    /\ \E a \in InputArguments : Serve("get_supported_formats", a)
CallUnknownTool ==
    /\ srvPc = "idle"
    /\ \E a \in InputArguments : Serve("delete_file", a)

\* mkdir(parents=True) and open(..., 'w') under the output directory.
WriteFails(output_dir) == output_dir = "/proc/out"

\* One pass of the batch loop body: convert_local, then the write when an
\* output directory was given; any exception makes the item a failure.
ItemOutcome(file_path, output_dir) ==
    LET result == convert_local(file_path)
    IN  IF result.kind # "ok"
        THEN [ok |-> FALSE, entry |-> <<"x ", file_path, ": ">> \o result.msg]
        ELSE IF Falsy(output_dir)
        THEN [ok |-> TRUE, entry |-> <<"v ", file_path, " (converted)">>]
        ELSE IF WriteFails(output_dir)
        THEN [ok |-> FALSE, entry |-> <<"x ", file_path, ": ", "[Errno 13] Permission denied">>]
        ELSE [ok |-> TRUE, entry |-> <<"v ", file_path, " -> ", output_dir>>]

\* _handle_convert_batch up to its loop: the input check, set_options, the
\* empty result lists.  A failure here is the whole call's failure.
BatchStart ==
    \E a \in BatchArguments :
        /\ srvPc = "idle"
        /\ request' = [name |-> "convert_batch", arguments |-> a]
        /\ options_at_call' = options
        /\ results' = << >>
        /\ errors' = << >>
        /\ IF a.file_paths = << >>
           THEN /\ reply' = ErrorResult(<<"file_paths is required">>)
                /\ engine_calls' = << >>
                /\ UNCHANGED <<srvPc, options, batch_i>>
           ELSE IF a.options.given = "null"
           THEN /\ reply' = ErrorResult(<<"Batch conversion error: ">> \o NullOptions.msg)
                /\ engine_calls' = << >>
                /\ UNCHANGED <<srvPc, options, batch_i>>
           ELSE /\ reply' = NoReply
                /\ options' = set_options(options, a.options.map)
                /\ engine_calls' = << Call("set_options", "") >>
                /\ batch_i' = 1
                /\ srvPc' = "batch"
        /\ UNCHANGED notSrv

\* A plausible bug: the first failing item ends the loop.
BatchItemStopsOnError ==
    LET file_paths == request.arguments.file_paths
        item == ItemOutcome(file_paths[batch_i], request.arguments.output_dir)
    IN  /\ srvPc = "batch"
        /\ batch_i <= Len(file_paths)
        /\ results' = IF item.ok THEN Append(results, item.entry) ELSE results
        /\ errors' = IF item.ok THEN errors ELSE Append(errors, item.entry)
        /\ engine_calls' = Append(engine_calls, Call("convert_local", file_paths[batch_i]))
        /\ batch_i' = IF item.ok THEN batch_i + 1 ELSE Len(file_paths) + 1
        /\ UNCHANGED <<srvPc, request, reply, options_at_call, options>>
        /\ UNCHANGED notSrv

\* One iteration of "for file_path in file_paths".
BatchItem ==
    LET file_paths == request.arguments.file_paths
        item == ItemOutcome(file_paths[batch_i], request.arguments.output_dir)
    IN  /\ srvPc = "batch"
        /\ batch_i <= Len(file_paths)
        /\ results' = IF item.ok THEN Append(results, item.entry) ELSE results
        /\ errors' = IF item.ok THEN errors ELSE Append(errors, item.entry)
        /\ engine_calls' = Append(engine_calls, Call("convert_local", file_paths[batch_i]))
        /\ batch_i' = batch_i + 1
        /\ UNCHANGED <<srvPc, request, reply, options_at_call, options>>
        /\ UNCHANGED notSrv

\* The loop is over: the summary is built and returned, and the handler's
\* locals are gone.
BatchFinish ==
    /\ srvPc = "batch"
    /\ batch_i > Len(request.arguments.file_paths)
    /\ reply' = [Result(FALSE, << <<"# Batch Conversion Results">> >>) EXCEPT
                    !.summary = << Len(request.arguments.file_paths),
                                   Len(results), Len(errors) >>]
    /\ srvPc' = "idle"
    /\ batch_i' = 0
    /\ results' = << >>
    /\ errors' = << >>
    /\ UNCHANGED <<request, engine_calls, options_at_call, options>>
    /\ UNCHANGED notSrv

SrvNext ==
    \/ CallConvertFile
    \/ CallConvertUrl
    \/ CallAnalyzeDocument
    \/ CallGetSupportedFormats
    \/ CallUnknownTool
    \/ BatchStart
    \/ BatchItem
    \/ BatchFinish

(***************************************************************************)
(* The command line's batch command (cli.py, batch_command).               *)
(***************************************************************************)
NoCliArgs == [files |-> << >>, output_dir |-> "out", include_metadata |-> FALSE]

CliArgs ==
    { [files |-> f, output_dir |-> od, include_metadata |-> m] :
        f \in PathSeqs(MaxBatch), od \in { "out", "/proc/out" }, m \in BOOLEAN }

CliOff ==
    /\ cliPc = "off"
    /\ cli_args = NoCliArgs
    /\ cli_i = 0
    /\ successful = 0
    /\ failed = 0
    /\ cli_log = << >>

\* batch_command up to its loop: set_options with the three flags, the file
\* list (none: exit 1), the output directory (mkdir may raise).
CliBatchStart ==
    /\ cliPc = "start"
    /\ options' = set_options(options,
            [include_metadata |-> cli_args.include_metadata \/ FALSE,
             extract_images |-> FALSE,
             korean_optimization |-> FALSE])
    /\ cliPc' = IF cli_args.files = << >> THEN "exit"
                ELSE IF WriteFails(cli_args.output_dir) THEN "raised"
                ELSE "loop"
    /\ cli_i' = 1
    /\ UNCHANGED <<cli_args, successful, failed, cli_log>>
    /\ UNCHANGED notCli

\* One iteration of "for file_path in file_paths".
CliBatchItem ==
    LET file_path == cli_args.files[cli_i]
        item == ItemOutcome(file_path, cli_args.output_dir)
    IN  /\ cliPc = "loop"
        /\ cli_i <= Len(cli_args.files)
        /\ successful' = IF item.ok THEN successful + 1 ELSE successful
        /\ failed' = IF item.ok THEN failed ELSE failed + 1
        /\ cli_log' = Append(cli_log, file_path)
        /\ cli_i' = cli_i + 1
        /\ UNCHANGED <<cliPc, cli_args, options>>
        /\ UNCHANGED notCli

\* The loop is over: "Batch conversion complete: ... successful, ... failed".
CliBatchFinish ==
    /\ cliPc = "loop"
    /\ cli_i > Len(cli_args.files)
    /\ cliPc' = "done"
    /\ UNCHANGED <<cli_args, cli_i, successful, failed, cli_log, options>>
    /\ UNCHANGED notCli

CliNext ==
    \/ CliBatchStart
    \/ CliBatchItem
    \/ CliBatchFinish

(***************************************************************************)
(* The Audio converter's convert (converters/audio_converter.py) and the   *)
(* files it leaves on disk.  "tmp" is tmp_file_path, "wav" is wav_path     *)
(* (tmp_file_path with its suffix replaced by _converted.wav).  os.unlink  *)
(* of a file that exists is taken to succeed.                              *)
(***************************************************************************)
AudioExtensions == { None, ".mp3", ".wav", ".flac", ".m4a", ".ogg", ".wma" }

Dependencies ==
    [whisper_available : BOOLEAN, openai_available : BOOLEAN, pydub_available : BOOLEAN]

AudOff ==
    /\ auPc = "off"
    /\ deps = [whisper_available |-> FALSE, openai_available |-> FALSE,
               pydub_available |-> FALSE]
    /\ au_extension = None
    /\ files = {}
    /\ audio_path = None
    /\ tmp_created = FALSE
    /\ wav_produced = FALSE
    /\ pending = "none"
    /\ au_outcome = "none"

AudInit ==
    /\ auPc = "start"
    /\ deps \in Dependencies
    /\ au_extension \in AudioExtensions
    /\ files = {}
    /\ audio_path = None
    /\ tmp_created = FALSE
    /\ wav_produced = FALSE
    /\ pending = "none"
    /\ au_outcome = "none"

\* convert: the dependency check that precedes everything.
AudioConvert ==
    /\ auPc = "start"
    /\ IF ~(deps.whisper_available \/ deps.openai_available)
       THEN auPc' = "done" /\ au_outcome' = "MissingDependencyException"
       ELSE auPc' = "tmpfile" /\ UNCHANGED au_outcome
    /\ UNCHANGED <<deps, au_extension, files, audio_path, tmp_created, wav_produced, pending>>
    /\ UNCHANGED notAud

\* NamedTemporaryFile(delete=False, ...) creates the file on disk.
CreateTempFile ==
    /\ auPc = "tmpfile"
    /\ files' = files \cup {"tmp"}
    /\ tmp_created' = TRUE
    /\ auPc' = "copy"
    /\ UNCHANGED <<deps, au_extension, audio_path, wav_produced, pending, au_outcome>>
    /\ UNCHANGED notAud

\* NamedTemporaryFile itself raises: nothing was created, and the outer
\* except turns the error into FileConversionException.
CreateTempFileRaises ==
    /\ auPc = "tmpfile"
    /\ auPc' = "done"
    /\ au_outcome' = "FileConversionException"
    /\ UNCHANGED <<deps, au_extension, files, audio_path, tmp_created, wav_produced, pending>>
    /\ UNCHANGED notAud

\* seek(0), read() and write() inside the with block succeed; the block
\* closes the file and keeps it (delete=False).
CopyStream ==
    /\ auPc = "copy"
    /\ auPc' = "prepare"
    /\ UNCHANGED <<deps, au_extension, files, audio_path, tmp_created, wav_produced,
                   pending, au_outcome>>
    /\ UNCHANGED notAud

\* seek, read or write raises inside the with block: the block closes the
\* file and keeps it; the inner try/finally has not been entered, so the
\* exception goes straight to the outer except.
CopyStreamRaises ==
    /\ auPc = "copy"
    /\ auPc' = "done"
    /\ au_outcome' = "FileConversionException"
    /\ UNCHANGED <<deps, au_extension, files, audio_path, tmp_created, wav_produced, pending>>
    /\ UNCHANGED notAud

\* stream_info.extension or '.mp3'
EffectiveExtension(extension) == IF extension = None THEN ".mp3" ELSE extension

\* _prepare_audio returns file_path without re-encoding.
ReencodingSkipped(d, extension) ==
    \/ EffectiveExtension(extension) \in {".mp3", ".wav"} /\ d.whisper_available
    \/ ~d.pydub_available

PrepareAudioDirect ==
    /\ auPc = "prepare"
    /\ ReencodingSkipped(deps, au_extension)
    /\ audio_path' = "tmp"
    /\ auPc' = "body"
    /\ UNCHANGED <<deps, au_extension, files, tmp_created, wav_produced, pending, au_outcome>>
    /\ UNCHANGED notAud

\* _prepare_audio loads the audio and exports wav_path.
PrepareAudioExport ==
    /\ auPc = "prepare"
    /\ ~ReencodingSkipped(deps, au_extension)
    /\ files' = files \cup {"wav"}
    /\ wav_produced' = TRUE
    /\ audio_path' = "wav"
    /\ auPc' = "body"
    /\ UNCHANGED <<deps, au_extension, tmp_created, pending, au_outcome>>
    /\ UNCHANGED notAud

\* Loading or exporting raises: _prepare_audio logs and returns file_path.
\* An export that failed midway may have left its output file behind.
PrepareAudioExportFails ==
    /\ auPc = "prepare"
    /\ ~ReencodingSkipped(deps, au_extension)
    /\ \E partial \in BOOLEAN : files' = IF partial THEN files \cup {"wav"} ELSE files
    /\ audio_path' = "tmp"
    /\ auPc' = "body"
    /\ UNCHANGED <<deps, au_extension, tmp_created, wav_produced, pending, au_outcome>>
    /\ UNCHANGED notAud

\* The rest of the inner try returns a result: _transcribe_audio and
\* _extract_audio_metadata swallow their own failures.
BodyReturns ==
    /\ auPc = "body"
    /\ pending' = "result"
    /\ auPc' = "finally"
    /\ UNCHANGED <<deps, au_extension, files, audio_path, tmp_created, wav_produced, au_outcome>>
    /\ UNCHANGED notAud

\* The rest of the inner try raises.
BodyRaises ==
    /\ auPc = "body"
    /\ pending' = "raise"
    /\ auPc' = "finally"
    /\ UNCHANGED <<deps, au_extension, files, audio_path, tmp_created, wav_produced, au_outcome>>
    /\ UNCHANGED notAud

\* The finally clause: unlink tmp_file_path, and audio_path if it differs.
Cleanup ==
    /\ auPc = "finally"
    /\ files' = (files \ {"tmp"}) \ (IF audio_path # "tmp" THEN {audio_path} ELSE {})
    /\ au_outcome' = IF pending = "result" THEN "result" ELSE "FileConversionException"
    /\ auPc' = "done"
    /\ UNCHANGED <<deps, au_extension, audio_path, tmp_created, wav_produced, pending>>
    /\ UNCHANGED notAud

AudNext ==
    \/ AudioConvert
    \/ CreateTempFile
    \/ CreateTempFileRaises
    \/ CopyStream
    \/ CopyStreamRaises
    \/ PrepareAudioDirect
    \/ PrepareAudioExport
    \/ PrepareAudioExportFails
    \/ BodyReturns
    \/ BodyRaises
    \/ Cleanup

(***************************************************************************)
(* The Text converter (converters/text_converter.py) with the helpers it   *)
(* calls (utils/format_utils.py, core/base_converter.py).  A text is a     *)
(* sequence of characters, each a string: an ASCII character is itself, a  *)
(* character outside ASCII is written by its code point ("U+FF0C").  The   *)
(* streams read are ASCII, for which every codec                           *)
(* read_stream_with_encoding may choose yields the same characters.        *)
(***************************************************************************)
LowerLetters == << "a", "b", "c", "d", "e", "f", "g", "h", "i", "j", "k", "l", "m",
                   "n", "o", "p", "q", "r", "s", "t", "u", "v", "w", "x", "y", "z" >>
UpperLetters == << "A", "B", "C", "D", "E", "F", "G", "H", "I", "J", "K", "L", "M",
                   "N", "O", "P", "Q", "R", "S", "T", "U", "V", "W", "X", "Y", "Z" >>
Digits == { "0", "1", "2", "3", "4", "5", "6", "7", "8", "9" }

Range(s) == { s[i] : i \in 1..Len(s) }
IndexOf(s, c) == CHOOSE i \in 1..Len(s) : s[i] = c

\* str.upper and str.lower of one character.
ToUpper(c) == IF c \in Range(LowerLetters) THEN UpperLetters[IndexOf(LowerLetters, c)] ELSE c
ToLower(c) == IF c \in Range(UpperLetters) THEN LowerLetters[IndexOf(UpperLetters, c)] ELSE c

\* The regular expression classes \s and \w.
IsSpace(c) == c \in { " ", "\t", "\n", "\r" }
IsWord(c) == c \in Range(LowerLetters) \cup Range(UpperLetters) \cup Digits \cup { "_" }

\* s[i], or "" past either end.
At(s, i) == IF i \in 1..Len(s) THEN s[i] ELSE ""

RECURSIVE lstrip(_)
lstrip(s) == IF s # << >> /\ IsSpace(Head(s)) THEN lstrip(Tail(s)) ELSE s

RECURSIVE rstrip(_)
rstrip(s) ==
    IF s # << >> /\ IsSpace(s[Len(s)]) THEN rstrip(SubSeq(s, 1, Len(s) - 1)) ELSE s

\* str.strip()
strip(s) == rstrip(lstrip(s))

\* The first index from i on whose character is not whitespace.
RECURSIVE SpaceRunEnd(_, _)
SpaceRunEnd(s, i) == IF i <= Len(s) /\ IsSpace(s[i]) THEN SpaceRunEnd(s, i + 1) ELSE i

\* re.sub(r'[ \t]+', ' ', text)
RECURSIVE sub_spaces(_)
sub_spaces(s) ==
    IF s = << >> THEN << >>
    ELSE IF Head(s) \in {" ", "\t"}
    THEN IF Len(s) > 1 /\ s[2] \in {" ", "\t"}
         THEN sub_spaces(Tail(s))
         ELSE <<" ">> \o sub_spaces(Tail(s))
    ELSE <<Head(s)>> \o sub_spaces(Tail(s))

\* The newlines of the whitespace run that starts at i.
RunNewlines(s, i) == { k \in i..(SpaceRunEnd(s, i) - 1) : s[k] = "\n" }

Max(S) == CHOOSE x \in S : \A y \in S : y <= x

\* re.sub(r'\n\s*\n\s*\n+', '\n\n', text) and re.sub(r'\n\s*\n\s*\n', '\n\n',
\* text): a match starts at a newline whose whitespace run holds at least
\* three newlines and, both \s* being greedy, ends at the last of them.
RECURSIVE sub_blank_lines(_, _)
sub_blank_lines(s, i) ==
    IF i > Len(s) THEN << >>
    ELSE IF s[i] = "\n" /\ Cardinality(RunNewlines(s, i)) >= 3
    THEN <<"\n", "\n">> \o sub_blank_lines(s, Max(RunNewlines(s, i)) + 1)
    ELSE <<s[i]>> \o sub_blank_lines(s, i + 1)

\* A plausible bug: the final strip is left out.
normalize_whitespace_unstripped(text) == sub_blank_lines(sub_spaces(text), 1)

\* format_utils.normalize_whitespace
normalize_whitespace(text) ==
    IF text = << >> THEN << >>
    ELSE strip(sub_blank_lines(sub_spaces(text), 1))

\* str.split(sep) for a one-character separator.
RECURSIVE split(_, _)
split(s, sep) ==
    IF \E k \in 1..Len(s) : s[k] = sep
    THEN LET k == CHOOSE k \in 1..Len(s) : s[k] = sep /\ \A j \in 1..(k - 1) : s[j] # sep
         IN  <<SubSeq(s, 1, k - 1)>> \o split(SubSeq(s, k + 1, Len(s)), sep)
    ELSE <<s>>

\* re.sub(r'^#+\s*', '', line)
RECURSIVE drop_hashes(_)
drop_hashes(s) == IF s # << >> /\ Head(s) = "#" THEN drop_hashes(Tail(s)) ELSE s
sub_heading_marker(line) ==
    IF line # << >> /\ Head(line) = "#" THEN lstrip(drop_hashes(line)) ELSE line

\* re.sub(r'[^\w\s가-힣]', '', line)
IsTitleChar(c) == IsWord(c) \/ IsSpace(c)
sub_special(line) == SelectSeq(line, IsTitleChar)

None1 == << None >>

\* format_utils.extract_title_from_content: the first line that is not
\* blank and not longer than max_length, cleaned, if anything is left of it.
RECURSIVE first_title(_, _)
first_title(lines, i) ==
    IF i > Len(lines) THEN None1
    ELSE LET line == strip(lines[i])
             cleaned == sub_special(sub_heading_marker(line))
         IN  IF line # << >> /\ Len(line) <= TitleMaxLength /\ cleaned # << >>
             THEN cleaned
             ELSE first_title(lines, i + 1)

extract_title_from_content(content) ==
    IF content = << >> THEN None1 ELSE first_title(split(content, "\n"), 1)

\* The last index of c in s, 0 if there is none.
LastIndexOf(s, c) ==
    IF \E k \in 1..Len(s) : s[k] = c THEN Max({ k \in 1..Len(s) : s[k] = c }) ELSE 0

\* str.capitalize()
capitalize(s) ==
    [i \in 1..Len(s) |-> IF i = 1 THEN ToUpper(s[i]) ELSE ToLower(s[i])]

\* TextConverter._extract_title_from_filename
extract_title_from_filename(filename) ==
    IF filename = None1 \/ filename = << >> THEN None1
    ELSE LET stem == IF LastIndexOf(filename, ".") > 0
                     THEN SubSeq(filename, 1, LastIndexOf(filename, ".") - 1)
                     ELSE filename
             spaced == [i \in 1..Len(stem) |-> IF stem[i] \in {"_", "-"} THEN " " ELSE stem[i]]
             title == capitalize(strip(spaced))
         IN  IF title # << >> THEN title ELSE None1

\* "a or b" on optional titles.
Or(a, b) == IF a # None1 /\ a # << >> THEN a ELSE b

\* re.sub(r'(\S)\s+(\S)', r'\1 \2', text): matches do not overlap.
\* A match starts at i: a character that is no whitespace, whitespace, and
\* a character that is none after it.
SpacingMatch(s, i) ==
    ~IsSpace(s[i]) /\ SpaceRunEnd(s, i + 1) > i + 1 /\ SpaceRunEnd(s, i + 1) <= Len(s)

RECURSIVE sub_spacing(_, _)
sub_spacing(s, i) ==
    IF i > Len(s) THEN << >>
    ELSE IF SpacingMatch(s, i)
    THEN <<s[i], " ", s[SpaceRunEnd(s, i + 1)]>> \o sub_spacing(s, SpaceRunEnd(s, i + 1) + 1)
    ELSE LET starts == { k \in (i + 1)..Len(s) : SpacingMatch(s, k) } \cup { Len(s) + 1 }
             next == CHOOSE k \in starts : \A j \in starts : k <= j
         IN  SubSeq(s, i, next - 1) \o sub_spacing(s, next)

\* The korean_punctuation table of _normalize_korean_text: one dot leader,
\* full-width comma, colon, semicolon, question mark, exclamation mark and
\* parentheses, and the four corner brackets.
korean_punctuation ==
    [c \in { "U+2024", "U+FF0C", "U+FF1A", "U+FF1B", "U+FF1F", "U+FF01",
              "U+FF08", "U+FF09", "U+300C", "U+300D", "U+300E", "U+300F" } |->
        CASE c = "U+2024" -> "."
          [] c = "U+FF0C" -> ","
          [] c = "U+FF1A" -> ":"
          [] c = "U+FF1B" -> ";"
          [] c = "U+FF1F" -> "?"
          [] c = "U+FF01" -> "!"
          [] c = "U+FF08" -> "("
          [] c = "U+FF09" -> ")"
          [] OTHER -> "\""]

\* "for korean, english in korean_punctuation.items():
\*      text = text.replace(korean, english)"
replace_punctuation(text) ==
    [i \in 1..Len(text) |->
        IF text[i] \in DOMAIN korean_punctuation THEN korean_punctuation[text[i]] ELSE text[i]]

\* DocumentConverter._normalize_korean_text
normalize_korean_text(flag, text) ==
    IF ~flag \/ text = << >> THEN text ELSE replace_punctuation(sub_spacing(text, 1))

\* A plausible bug: the first 100 characters are kept before the "...".
format_title_long(flag, title) ==
    IF title = << >> THEN << >>
    ELSE LET t == normalize_korean_text(flag, strip(title))
         IN  IF Len(t) > FormatTitleLimit
             THEN SubSeq(t, 1, FormatTitleLimit) \o <<".", ".", ".">>
             ELSE t

\* DocumentConverter._format_title
format_title(flag, title) ==
    IF title = << >> THEN << >>
    ELSE LET t == normalize_korean_text(flag, strip(title))
         IN  IF Len(t) > FormatTitleLimit
             THEN SubSeq(t, 1, FormatTitleLimit - 3) \o <<".", ".", ".">>
             ELSE t

\* DocumentConverter._clean_markdown
clean_markdown(flag, markdown) ==
    IF markdown = << >> THEN << >>
    ELSE normalize_korean_text(flag, strip(sub_blank_lines(markdown, 1)))

\* A position where "^" matches under re.MULTILINE.
LineStart(s, i) == i = 1 \/ s[i - 1] = "\n"

\* s[i..j] consists of the character c alone.
AllAre(s, i, j, c) == \A k \in i..j : At(s, k) = c

\* The patterns of _looks_like_markdown are raw strings whose backslashes are
\* doubled, so each "\\" is a literal backslash (or, before "*", a backslash
\* repeated zero or more times) and the letter after it stands for itself.
\* r'^#+\\s': hashes at a line start, then a backslash and the letter s.
HeaderProbe(s) ==
    \E i \in 1..Len(s) : \E n \in 1..Len(s) :
        /\ LineStart(s, i)
        /\ AllAre(s, i, i + n - 1, "#")
        /\ At(s, i + n) = "\\" /\ At(s, i + n + 1) = "s"

\* r'^\\*\\s': backslashes at a line start, the last one followed by s.
BulletProbe(s) ==
    \E i \in 1..Len(s) : \E n \in 0..Len(s) :
        /\ LineStart(s, i)
        /\ AllAre(s, i, i + n - 1, "\\")
        /\ At(s, i + n) = "\\" /\ At(s, i + n + 1) = "s"

\* r'^\\d+\\.\\s': backslash, d's, backslash, any character, backslash, s.
OrderedProbe(s) ==
    \E i \in 1..Len(s) : \E n \in 1..Len(s) :
        /\ LineStart(s, i)
        /\ At(s, i) = "\\"
        /\ AllAre(s, i + 1, i + n, "d")
        /\ At(s, i + n + 1) = "\\"
        /\ At(s, i + n + 2) \notin {"", "\n"}
        /\ At(s, i + n + 3) = "\\" /\ At(s, i + n + 4) = "s"

\* r'\\*\\*[^*]+\\*\\*' and r'\\*[^*]+\\*': any backslashes, then at least
\* one character that is not "*", then any backslashes.
BoldProbe(s) == \E i \in 1..Len(s) : s[i] # "*"
ItalicProbe(s) == \E i \in 1..Len(s) : s[i] # "*"

\* r'\\[[^\\]]+\\]\\([^\\)]+\\)': backslash, one of [ ^ \, some ], backslash,
\* ], backslash, some characters other than \ and ), backslash.
LinkProbe(s) ==
    \E i \in 1..Len(s) : \E n \in 1..Len(s) : \E m \in 1..Len(s) :
        /\ At(s, i) = "\\"
        /\ At(s, i + 1) \in {"[", "^", "\\"}
        /\ AllAre(s, i + 2, i + n + 1, "]")
        /\ At(s, i + n + 2) = "\\" /\ At(s, i + n + 3) = "]" /\ At(s, i + n + 4) = "\\"
        /\ \A k \in (i + n + 5)..(i + n + m + 4) : At(s, k) \notin {"", "\\", ")"}
        /\ At(s, i + n + m + 5) = "\\"

\* The grave accent, which a string of this language cannot hold.
GraveAccent == "<grave>"

\* The last pattern: three grave accents in a row.
FenceProbe(s) == \E i \in 1..Len(s) : AllAre(s, i, i + 2, GraveAccent)

\* TextConverter._looks_like_markdown
looks_like_markdown(text) ==
    \/ HeaderProbe(text) \/ BulletProbe(text) \/ OrderedProbe(text)
    \/ BoldProbe(text) \/ ItalicProbe(text) \/ LinkProbe(text) \/ FenceProbe(text)

\* '\\n' in the source is not a newline but a backslash and the letter n.
BackslashN == << "\\", "n" >>

\* text.split('\\n'): the pieces of s between occurrences of backslash-n.
RECURSIVE split_backslash_n(_)
split_backslash_n(s) ==
    IF \E k \in 1..(Len(s) - 1) : SubSeq(s, k, k + 1) = BackslashN
    THEN LET k == CHOOSE k \in 1..(Len(s) - 1) :
                    /\ SubSeq(s, k, k + 1) = BackslashN
                    /\ \A j \in 1..(k - 1) : SubSeq(s, j, j + 1) # BackslashN
         IN  <<SubSeq(s, 1, k - 1)>> \o split_backslash_n(SubSeq(s, k + 2, Len(s)))
    ELSE <<s>>

\* TextConverter._looks_like_heading
looks_like_heading(line) ==
    \/ Len(line) < HeadingMaxLength /\ line[Len(line)] \notin {".", "!", "?", ":"}
    \/ line[1] \in Digits

\* line.split()[0].count('.') of a line that starts with a digit.
FirstWordDots(line) ==
    Cardinality({ k \in 1..Len(line) :
                    /\ line[k] = "."
                    /\ \A j \in 1..k : ~IsSpace(line[j]) })

Min(a, b) == IF a <= b THEN a ELSE b

\* TextConverter._get_heading_level
get_heading_level(line) ==
    IF line[1] \in Digits THEN Min(FirstWordDots(line) + 1, 6) ELSE 2

\* The bullet test of _looks_like_list_item; what follows it in the source,
\* re.match(r'^\\d+\\)\\s', line), is a pattern that does not compile.
starts_with_bullet(line) == line[1] \in {"-", "*"}

\* One line of _plain_text_to_markdown, or Raises when the line reaches the
\* pattern that does not compile.
Raises == << "<re.error>" >>
plain_line(raw) ==
    LET line == strip(raw)
    IN  IF line = << >> THEN << >>
        ELSE IF looks_like_heading(line)
        THEN [i \in 1..get_heading_level(line) |-> "#"] \o <<" ">> \o line
        ELSE IF starts_with_bullet(line) THEN <<"-", " ">> \o line
        ELSE Raises

\* '\\n'.join(markdown_lines)
RECURSIVE join_backslash_n(_)
join_backslash_n(lines) ==
    IF Len(lines) = 1 THEN lines[1]
    ELSE lines[1] \o BackslashN \o join_backslash_n(Tail(lines))

\* TextConverter._plain_text_to_markdown
plain_text_to_markdown(text) ==
    LET lines == split_backslash_n(text)
        markdown_lines == [i \in 1..Len(lines) |-> plain_line(lines[i])]
    IN  IF \E i \in 1..Len(lines) : markdown_lines[i] = Raises
        THEN Raises
        ELSE join_backslash_n(markdown_lines)

\* TextConverter._text_to_markdown
text_to_markdown(text, title) ==
    LET heading == IF title # None1 /\ title # << >>
                   THEN <<"#", " ">> \o title \o BackslashN \o BackslashN
                   ELSE << >>
        body == IF looks_like_markdown(text) THEN text ELSE plain_text_to_markdown(text)
    IN  IF body = Raises THEN Raises ELSE heading \o body

\* TextConverter.convert: the Markdown and the title of the result, or the
\* FileConversionException its except clause raises.
TextConvertResult(flag, content, filename) ==
    LET text_content == normalize_whitespace(content)
        title == Or(extract_title_from_content(text_content),
                    extract_title_from_filename(filename))
        markdown == text_to_markdown(text_content, title)
    IN  IF markdown = Raises
        THEN [kind |-> "FileConversionException", markdown |-> << >>, title |-> None1]
        ELSE [kind |-> "result",
              markdown |-> clean_markdown(flag, markdown),
              title |-> IF title # None1 /\ title # << >>
                        THEN format_title(flag, title) ELSE None1]

\* "# Test Document\n\nThis is a test."
TestDocument ==
    << "#", " ", "T", "e", "s", "t", " ", "D", "o", "c", "u", "m", "e", "n", "t",
       "\n", "\n", "T", "h", "i", "s", " ", "i", "s", " ", "a", " ", "t", "e", "s", "t", "." >>

TextChars == { "#", " ", "a", "\n", "*" }
Texts == UNION { [1..n -> TextChars] : n \in 0..MaxTextLen } \cup { TestDocument }

\* stream_info.filename: None, or "my_notes.txt".
TextFilenames ==
    { None1, << "m", "y", "_", "n", "o", "t", "e", "s", ".", "t", "x", "t" >> }

NoTextResult == [kind |-> "none", markdown |-> << >>, title |-> None1]

TxtOff ==
    /\ txtPc = "off"
    /\ korean_support = TRUE
    /\ text_stream = << >>
    /\ text_filename = None1
    /\ text_result = NoTextResult

TxtInit ==
    /\ txtPc = "start"
    /\ korean_support \in BOOLEAN
    /\ text_stream \in Texts
    /\ text_filename \in TextFilenames
    /\ text_result = NoTextResult

\* TextConverter.convert on the stream, its descriptor carrying ".txt".
TextConvert ==
    /\ txtPc = "start"
    /\ text_result' = TextConvertResult(korean_support, text_stream, text_filename)
    /\ txtPc' = "done"
    /\ UNCHANGED <<korean_support, text_stream, text_filename>>
    /\ UNCHANGED notTxt

TxtNext == TextConvert

(***************************************************************************)
(* Data URIs (core/markitdown.py, _convert_data_uri).  The URI is a        *)
(* sequence of characters and the decoded payload a sequence of bytes.     *)
(***************************************************************************)

\* The characters of the codes 32 to 126.
PrintableAscii ==
    << " ", "!", "\"", "#", "$", "%", "&", "'", "(", ")", "*", "+", ",", "-", ".", "/",
       "0", "1", "2", "3", "4", "5", "6", "7", "8", "9", ":", ";", "<", "=", ">", "?",
       "@", "A", "B", "C", "D", "E", "F", "G", "H", "I", "J", "K", "L", "M", "N", "O",
       "P", "Q", "R", "S", "T", "U", "V", "W", "X", "Y", "Z", "[", "\\", "]", "^", "_",
       GraveAccent, "a", "b", "c", "d", "e", "f", "g", "h", "i", "j", "k", "l", "m", "n", "o",
       "p", "q", "r", "s", "t", "u", "v", "w", "x", "y", "z", "{", "|", "}", "~" >>

\* ord() of an ASCII character, and the character of an ASCII byte.
Ord(c) ==
    CASE c = "\t" -> 9 [] c = "\n" -> 10 [] c = "\r" -> 13
      [] OTHER -> IndexOf(PrintableAscii, c) + 31
Chr(b) ==
    CASE b = 9 -> "\t" [] b = 10 -> "\n" [] b = 13 -> "\r"
      [] OTHER -> PrintableAscii[b - 31]

\* content.decode(...) of read_stream_with_encoding, for ASCII bytes.
DecodeText(bytes) == [i \in 1..Len(bytes) |-> Chr(bytes[i])]

\* s.find(c) + 1: the first index of c in s, 0 when it is absent.
Find(s, c) ==
    IF \E i \in 1..Len(s) : s[i] = c
    THEN CHOOSE i \in 1..Len(s) : s[i] = c /\ \A j \in 1..(i - 1) : s[j] # c
    ELSE 0

\* `word in s` for sequences of characters.
Contains(s, word) ==
    \E i \in 0..(Len(s) - Len(word)) : SubSeq(s, i + 1, i + Len(word)) = word

Base64Word == << "b", "a", "s", "e", "6", "4" >>

\* The alphabet of base64, a character's place in it being its value + 1.
Base64Alphabet ==
    UpperLetters \o LowerLetters \o
    << "0", "1", "2", "3", "4", "5", "6", "7", "8", "9", "+", "/" >>

\* The bytes a run of 2, 3 or 4 six-bit values stands for.
QuadBytes(q) ==
    LET n == q[1] * 262144 + (IF Len(q) > 1 THEN q[2] * 4096 ELSE 0)
             + (IF Len(q) > 2 THEN q[3] * 64 ELSE 0) + (IF Len(q) > 3 THEN q[4] ELSE 0)
        three == << n \div 65536, (n \div 256) % 256, n % 256 >>
    IN  SubSeq(three, 1, Len(q) - 1)

BadPadding == << -1 >>

\* binascii.a2b_base64 as base64.b64decode calls it (not strict): characters
\* outside the alphabet are skipped, "=" ends the data once the group in
\* progress has two or three values and enough padding, and data that ends
\* inside a group is an error (BadPadding).
RECURSIVE a2b_base64(_, _, _, _)
a2b_base64(s, i, quad, pads) ==
    IF i > Len(s)
    THEN (IF quad = << >> THEN << >> ELSE BadPadding)
    ELSE IF s[i] = "="
    THEN (IF Len(quad) >= 2 /\ Len(quad) + pads + 1 >= 4
          THEN QuadBytes(quad)
          ELSE a2b_base64(s, i + 1, quad, pads + 1))
    ELSE IF s[i] \in Range(Base64Alphabet)
    THEN LET q == Append(quad, IndexOf(Base64Alphabet, s[i]) - 1)
         IN  IF Len(q) = 4
             THEN LET rest == a2b_base64(s, i + 1, << >>, 0)
                  IN  IF rest = BadPadding THEN BadPadding ELSE QuadBytes(q) \o rest
             ELSE a2b_base64(s, i + 1, q, 0)
    ELSE a2b_base64(s, i + 1, quad, pads)

\* base64.b64decode(data)
b64decode(data) == a2b_base64(data, 1, << >>, 0)

HexDigits == << "0", "1", "2", "3", "4", "5", "6", "7", "8", "9",
                "a", "b", "c", "d", "e", "f" >>
IsHex(c) == ToLower(c) \in Range(HexDigits)
HexValue(c) == IndexOf(HexDigits, ToLower(c)) - 1

\* unquote(data).encode('utf-8'): "%XX" becomes the byte XX, anything else
\* stands for itself.  The escapes of the model are below 0x80, where the
\* UTF-8 decoding and encoding around the bytes change nothing.
RECURSIVE unquote(_)
unquote(s) ==
    IF s = << >> THEN << >>
    ELSE IF s[1] = "%" /\ Len(s) >= 3 /\ IsHex(s[2]) /\ IsHex(s[3])
    THEN << 16 * HexValue(s[2]) + HexValue(s[3]) >> \o unquote(SubSeq(s, 4, Len(s)))
    ELSE << Ord(s[1]) >> \o unquote(Tail(s))

DataScheme == << "d", "a", "t", "a", ":" >>

\* du_uri[5:].split(',', 1) and header.split(';', 1): the media type, the
\* base64 test and the data, or << >> when there is no comma to split at
\* (the unpacking raises ValueError).
parse_data_uri(uri) ==
    LET rest == SubSeq(uri, Len(DataScheme) + 1, Len(uri))
        comma == Find(rest, ",")
        header == SubSeq(rest, 1, comma - 1)
        semi == Find(header, ";")
    IN  IF comma = 0 THEN << >>
        ELSE << [media_type |-> IF semi = 0 THEN header ELSE SubSeq(header, 1, semi - 1),
                 is_base64 |-> semi # 0 /\ Contains(SubSeq(header, semi + 1, Len(header)),
                                                     Base64Word),
                 data |-> SubSeq(rest, comma + 1, Len(rest))] >>

TextPlain == << "t", "e", "x", "t", "/", "p", "l", "a", "i", "n" >>
ApplicationPdf == << "a", "p", "p", "l", "i", "c", "a", "t", "i", "o", "n", "/", "p", "d", "f" >>

\* The media type as the descriptor holds it ("" is as falsy as None).
MimeOf(media_type) ==
    CASE media_type = TextPlain      -> <<"text", "plain">>
      [] media_type = ApplicationPdf -> <<"application", "pdf">>
      [] media_type = << >>          -> NoMime

MediaTypes == { TextPlain, ApplicationPdf, << >> }
HeaderParameters ==
    { << >>, << ";", "b", "a", "s", "e", "6", "4" >>, << ";", "c", "h", "a", "r", "s", "e", "t", "=", "u", "t", "f", "-", "8" >>, << ";", "c", "h", "a", "r", "s", "e", "t", "=", "u", "t", "f", "-", "8", ";", "b", "a", "s", "e", "6", "4" >>, << ";", "n", "a", "m", "e", "=", "b", "a", "s", "e", "6", "4", ".", "t", "x", "t" >> }
Payloads ==
    { << "S", "G", "V", "s", "b", "G", "8", "=" >>, << "H", "e", "l", "l", "o" >>, << "a", "%", "2", "0", "%", "2", "0", "b" >>, << "Y", "S", "A", "g", "Y", "g", "=", "=" >>, << "S", "G", "k" >>, << >> }

DataUriInputs ==
    { DataScheme \o mt \o p \o <<",">> \o d :
          mt \in MediaTypes, p \in HeaderParameters, d \in Payloads }
    \cup { DataScheme \o TextPlain }

NoParsed == [media_type |-> << >>, is_base64 |-> FALSE, data |-> << >>]

DuOff ==
    /\ duPc = "off"
    /\ du_uri = << >>
    /\ enable_korean_support = TRUE
    /\ du_parsed = NoParsed
    /\ du_decoder = "none"
    /\ du_result = NoTextResult

DuInit ==
    /\ duPc = "start"
    /\ du_uri \in DataUriInputs
    /\ enable_korean_support \in BOOLEAN
    /\ du_parsed = NoParsed
    /\ du_decoder = "none"
    /\ du_result = NoTextResult

engLoop == <<guesses, gi, ci, failed_attempts, attempts, outcome, options>>

\* _convert_data_uri up to the decoding: the two splits.
ParseDataUri ==
    /\ duPc = "start"
    /\ parse_data_uri(du_uri) # << >>
    /\ du_parsed' = parse_data_uri(du_uri)[1]
    /\ duPc' = "decode"
    /\ UNCHANGED <<du_uri, enable_korean_support, du_decoder, du_result>>
    /\ UNCHANGED <<stream, base_info, magic, engPc, engLoop>>
    /\ UNCHANGED notDu

\* No comma: `header, data = ...` raises ValueError.
ParseDataUriRaises ==
    /\ duPc = "start"
    /\ parse_data_uri(du_uri) = << >>
    /\ du_result' = [kind |-> "ValueError", markdown |-> << >>, title |-> None1]
    /\ duPc' = "done"
    /\ UNCHANGED <<du_uri, enable_korean_support, du_parsed, du_decoder>>
    /\ UNCHANGED <<stream, base_info, magic, engPc, engLoop>>
    /\ UNCHANGED notDu

\* The stream and its descriptor are made and convert_stream is entered.
EnterConvertStream(binary_data) ==
    /\ stream' = binary_data
    /\ base_info' = StreamInfo(MimeOf(du_parsed.media_type), None, None, None)
    /\ engPc' = "start"
    /\ duPc' = "engine"
    /\ UNCHANGED <<du_uri, enable_korean_support, du_parsed, du_result>>
    /\ UNCHANGED <<magic, engLoop>>
    /\ UNCHANGED notDu

DecodeBase64 ==
    /\ duPc = "decode"
    /\ du_parsed.is_base64
    /\ b64decode(du_parsed.data) # BadPadding
    /\ du_decoder' = "base64"
    /\ EnterConvertStream(b64decode(du_parsed.data))

\* base64.b64decode raises binascii.Error, which nothing catches.
DecodeBase64Raises ==
    /\ duPc = "decode"
    /\ du_parsed.is_base64
    /\ b64decode(du_parsed.data) = BadPadding
    /\ du_decoder' = "base64"
    /\ du_result' = [kind |-> "binascii.Error", markdown |-> << >>, title |-> None1]
    /\ duPc' = "done"
    /\ UNCHANGED <<du_uri, enable_korean_support, du_parsed>>
    /\ UNCHANGED <<stream, base_info, magic, engPc, engLoop>>
    /\ UNCHANGED notDu

DecodePercent ==
    /\ duPc = "decode"
    /\ ~du_parsed.is_base64
    /\ du_decoder' = "percent"
    /\ EnterConvertStream(unquote(du_parsed.data))

\* convert_stream returns what TextConverter.convert made of the stream.
\* (An exception of convert would have sent the loop on; with the texts of
\* the model TextConverter.convert raises none.)
DataUriText ==
    /\ duPc = "engine" /\ engPc = "done"
    /\ outcome.kind = "result" /\ outcome.converter = "TextConverter"
    /\ du_result' = TextConvertResult(enable_korean_support, DecodeText(stream), None1)
    /\ duPc' = "done"
    /\ UNCHANGED <<du_uri, enable_korean_support, du_parsed, du_decoder>>
    /\ UNCHANGED <<stream, base_info, magic, engPc, engLoop>>
    /\ UNCHANGED notDu

\* convert_stream returns the result of another converter; what its library
\* made of the bytes is not modelled.
DataUriOther ==
    /\ duPc = "engine" /\ engPc = "done"
    /\ outcome.kind = "result" /\ outcome.converter # "TextConverter"
    /\ du_result' = [kind |-> "result", markdown |-> << outcome.converter >>, title |-> None1]
    /\ duPc' = "done"
    /\ UNCHANGED <<du_uri, enable_korean_support, du_parsed, du_decoder>>
    /\ UNCHANGED <<stream, base_info, magic, engPc, engLoop>>
    /\ UNCHANGED notDu

\* convert_stream raises UnsupportedFormatException.
DataUriUnsupported ==
    /\ duPc = "engine" /\ engPc = "done"
    /\ outcome.kind # "result"
    /\ du_result' = [kind |-> outcome.kind, markdown |-> << >>, title |-> None1]
    /\ duPc' = "done"
    /\ UNCHANGED <<du_uri, enable_korean_support, du_parsed, du_decoder>>
    /\ UNCHANGED <<stream, base_info, magic, engPc, engLoop>>
    /\ UNCHANGED notDu

DuNext ==
    \/ ParseDataUri
    \/ ParseDataUriRaises
    \/ DecodeBase64
    \/ DecodeBase64Raises
    \/ DecodePercent
    \/ DataUriText
    \/ DataUriOther
    \/ DataUriUnsupported

(***************************************************************************)
(* Structural analysis (core/markitdown.py, analyze_structure), on the     *)
(* Markdown of the conversion result.                                      *)
(***************************************************************************)

\* The end of the line that holds position i: the index of its last
\* character (i - 1 for an empty line).
RECURSIVE LineEnd(_, _)
LineEnd(s, i) == IF i > Len(s) \/ s[i] = "\n" THEN i - 1 ELSE LineEnd(s, i + 1)

\* The number of characters c from position i on.
RECURSIVE RunLength(_, _, _)
RunLength(s, i, c) == IF At(s, i) = c THEN 1 + RunLength(s, i + 1, c) ELSE 0

\* markdown[:k].count('\\n') + 1: the pattern counted is a backslash
\* followed by the letter n.
count_backslash_n(s) ==
    Cardinality({ k \in 1..(Len(s) - 1) : SubSeq(s, k, k + 1) = BackslashN })

\* r'^(#{1,6})\\s+(.+)$' at the line start i: one to six "#", a backslash,
\* letters s and the rest of the line, which has at least one character
\* (the last s when the letters run to the end of the line).
HeadingMatch(s, i) ==
    LET hashes == RunLength(s, i, "#")
        esses == RunLength(s, i + hashes + 1, "s")
        eol == LineEnd(s, i)
        from == i + hashes + 1 + esses
    IN  IF /\ hashes \in 1..MaxHeadingLevel
           /\ At(s, i + hashes) = "\\"
           /\ esses >= 1
           /\ eol >= i + hashes + 2
        THEN << [level |-> hashes,
                 text |-> strip(SubSeq(s, IF from > eol THEN eol ELSE from, eol)),
                 line |-> count_backslash_n(SubSeq(s, 1, i - 1)) + 1] >>
        ELSE << >>

\* The k-th smallest member of a set of numbers.
Kth(S, k) == CHOOSE x \in S : Cardinality({ y \in S : y < x }) = k - 1

\* MarkItDown._extract_headings: the matches of re.finditer, in order.
extract_headings(markdown) ==
    LET starts == { i \in 1..Len(markdown) :
                        LineStart(markdown, i) /\ HeadingMatch(markdown, i) # << >> }
    IN  [k \in 1..Cardinality(starts) |-> HeadingMatch(markdown, Kth(starts, k))[1]]

\* "# H1" to "###### H6", three image references and a table of two columns
\* with a header, a separator and two more lines.
SixHeadingsDocument ==
    << "#", " ", "H", "1", "\n", "#", "#", " ", "H", "2", "\n", "#", "#", "#", " ", "H", "3", "\n", "#", "#", "#", "#", " ", "H", "4", "\n", "#", "#", "#", "#", "#", " ", "H", "5", "\n", "#", "#", "#", "#", "#", "#", " ", "H", "6", "\n", "\n", "!", "[", "a", "]", "(", "u", "1", ")", " ", "!", "[", "b", "]", "(", "u", "2", ")", "\n", "!", "[", "c", "]", "(", "u", "3", ")", "\n", "\n", "|", " ", "A", " ", "|", " ", "B", " ", "|", "\n", "|", "-", "-", "-", "|", "-", "-", "-", "|", "\n", "|", " ", "1", " ", "|", " ", "2", " ", "|", "\n", "|", " ", "3", " ", "|", " ", "4", " ", "|", "\n" >>

MarkdownChars == { "#", "\\", "s", "n", "x", "\n" }
Markdowns ==
    UNION { [1..n -> MarkdownChars] : n \in 0..MaxMarkdownLen } \cup { SixHeadingsDocument }

NoReport == [kind |-> "none", headings |-> << >>]

AnOff ==
    /\ anPc = "off"
    /\ an_markdown = << >>
    /\ an_headings = << >>
    /\ an_result = NoReport

AnInit ==
    /\ anPc = "headings"
    /\ an_markdown \in Markdowns
    /\ an_headings = << >>
    /\ an_result = NoReport

\* 'headings': self._extract_headings(result.markdown)
ExtractHeadings ==
    /\ anPc = "headings"
    /\ an_headings' = extract_headings(an_markdown)
    /\ anPc' = "images"
    /\ UNCHANGED <<an_markdown, an_result>>
    /\ UNCHANGED notAn

\* 'images': self._extract_images(result.markdown): re.finditer compiles
\* r'!\\[([^\\]]*)\\]\\(([^\\)]+)\\)', whose first "[" opens a character
\* class that swallows the "(", so the ")" after it has no partner and
\* re.error is raised whatever the Markdown is.  The dictionary is never
\* built and analyze_structure raises.
ExtractImagesRaises ==
    /\ anPc = "images"
    /\ an_result' = [kind |-> "re.error", headings |-> << >>]
    /\ anPc' = "done"
    /\ UNCHANGED <<an_markdown, an_headings>>
    /\ UNCHANGED notAn

AnNext ==
    \/ ExtractHeadings
    \/ ExtractImagesRaises

(***************************************************************************)
(* The detector's two lookups in sequence (utils/file_detector.py).        *)
(***************************************************************************)
TableExtensions == { extension_mapping[i][1] : i \in 1..Len(extension_mapping) }

\* The extensions looked up: those of the table, and some that are not keys.
DetectorInputs == TableExtensions \cup { ".PDF", "pdf", ".xyz" }

DetOff ==
    /\ detPc = "off"
    /\ det_ext = None
    /\ det_forward = << >>
    /\ det_back = << >>

DetInit ==
    /\ detPc = "start"
    /\ det_ext \in DetectorInputs
    /\ det_forward = << >>
    /\ det_back = << >>

\* detect_from_extension returns a descriptor.
DetectFromExtension ==
    /\ detPc = "start"
    /\ detect_from_extension(det_ext) # << >>
    /\ det_forward' = detect_from_extension(det_ext)
    /\ detPc' = "forward"
    /\ UNCHANGED <<det_ext, det_back>>
    /\ UNCHANGED notDet

\* detect_from_extension returns None: the extension is not a key.
DetectFromExtensionNone ==
    /\ detPc = "start"
    /\ detect_from_extension(det_ext) = << >>
    /\ detPc' = "done"
    /\ UNCHANGED <<det_ext, det_forward, det_back>>
    /\ UNCHANGED notDet

\* detect_from_mimetype on the MIME type that came back.
DetectFromMimetype ==
    /\ detPc = "forward"
    /\ det_back' = detect_from_mimetype(det_forward[1].mimetype)
    /\ detPc' = "done"
    /\ UNCHANGED <<det_ext, det_forward>>
    /\ UNCHANGED notDet

DetNext ==
    \/ DetectFromExtension
    \/ DetectFromExtensionNone
    \/ DetectFromMimetype

(***************************************************************************)
(* normalize_whitespace applied to its own output (utils/format_utils.py). *)
(***************************************************************************)
WhitespaceChars == { " ", "\t", "\n", "a" }
WhitespaceTexts == UNION { [1..n -> WhitespaceChars] : n \in 0..MaxWhitespaceLen }

NwOff ==
    /\ nwPc = "off"
    /\ nw_text = << >>
    /\ nw_once = << >>
    /\ nw_twice = << >>

NwInit ==
    /\ nwPc = "start"
    /\ nw_text \in WhitespaceTexts
    /\ nw_once = << >>
    /\ nw_twice = << >>

NormalizeOnce ==
    /\ nwPc = "start"
    /\ nw_once' = normalize_whitespace(nw_text)
    /\ nwPc' = "once"
    /\ UNCHANGED <<nw_text, nw_twice>>
    /\ UNCHANGED notNw

NormalizeAgain ==
    /\ nwPc = "once"
    /\ nw_twice' = normalize_whitespace(nw_once)
    /\ nwPc' = "done"
    /\ UNCHANGED <<nw_text, nw_once>>
    /\ UNCHANGED notNw

NwNext ==
    \/ NormalizeOnce
    \/ NormalizeAgain

(***************************************************************************)
(* Configuration (markitdown_mcp_enhanced/config/settings.py) and the      *)
(* `config validate` command (markitdown_mcp_enhanced/cli.py).             *)
(*                                                                         *)
(* A Python value is a record: py is the name of its type, n the number of *)
(* a bool (0, 1), an int or a float (floats are counted in tenths: 0.1 is  *)
(* 1, 4.5 is 45), s the characters of a str, l the items of a list and d   *)
(* the entries of a dict.  A JSON value is a record too: a scalar keeps    *)
(* the characters of its token as json.dump writes them, an array its      *)
(* items, an object its members; "invalid" is a text that is not JSON.     *)
(***************************************************************************)
PyNone == [py |-> "NoneType", n |-> 0, s |-> << >>, l |-> << >>, d |-> << >>]
PyBool(b) == [py |-> "bool", n |-> IF b THEN 1 ELSE 0, s |-> << >>, l |-> << >>, d |-> << >>]
PyInt(n) == [py |-> "int", n |-> n, s |-> << >>, l |-> << >>, d |-> << >>]
PyFloat(tenths) == [py |-> "float", n |-> tenths, s |-> << >>, l |-> << >>, d |-> << >>]
PyStr(s) == [py |-> "str", n |-> 0, s |-> s, l |-> << >>, d |-> << >>]
PyList(l) == [py |-> "list", n |-> 0, s |-> << >>, l |-> l, d |-> << >>]
PyDict(d) == [py |-> "dict", n |-> 0, s |-> << >>, l |-> << >>, d |-> d]

JScalar(text) == [j |-> "scalar", text |-> text, items |-> << >>, members |-> << >>]
JArray(items) == [j |-> "array", text |-> << >>, items |-> items, members |-> << >>]
JObject(members) == [j |-> "object", text |-> << >>, items |-> << >>, members |-> members]
JInvalid == [j |-> "invalid", text |-> << "{" >>, items |-> << >>, members |-> << >>]

\* The dataclasses of settings.py with their defaults; a section is a
\* function from its field names to values.
ConverterSettings ==
    [enable_builtins |-> PyBool(TRUE), enable_plugins |-> PyBool(TRUE),
     korean_support |-> PyBool(TRUE), max_workers |-> PyInt(4)]
LLMSettings ==
    [openai_api_key |-> PyNone, llm_model |-> PyStr(<< "g", "p", "t", "-", "4", "o" >>),
     max_tokens |-> PyInt(300), temperature |-> PyFloat(1)]
AzureSettings == [endpoint |-> PyNone, key |-> PyNone, enabled |-> PyBool(FALSE)]
OCRSettings ==
    [tesseract_path |-> PyNone, easyocr_enabled |-> PyBool(TRUE),
     tesseract_enabled |-> PyBool(TRUE),
     languages |-> PyList(<< PyStr(<< "k", "o" >>), PyStr(<< "e", "n" >>) >>)]
AudioSettings ==
    [whisper_model |-> PyStr(<< "b", "a", "s", "e" >>), local_whisper_enabled |-> PyBool(TRUE),
     openai_whisper_enabled |-> PyBool(FALSE)]
ServerSettings ==
    [log_level |-> PyStr(<< "I", "N", "F", "O" >>), log_file |-> PyNone,
     enable_cors |-> PyBool(FALSE), max_file_size_mb |-> PyInt(100)]
ConversionOptions ==
    [include_metadata |-> PyBool(FALSE), extract_images |-> PyBool(FALSE),
     korean_optimization |-> PyBool(FALSE), preserve_formatting |-> PyBool(TRUE)]

\* MarkItDownConfig(): the seven sections, each at its defaults.
MarkItDownConfig ==
    [converters |-> ConverterSettings, llm |-> LLMSettings, azure |-> AzureSettings,
     ocr |-> OCRSettings, audio |-> AudioSettings, server |-> ServerSettings,
     conversion |-> ConversionOptions]

Sections == DOMAIN MarkItDownConfig

\* The characters of a section name, for `name in data` on a str or a list.
SectionText(name) ==
    CASE name = "converters" -> << "c", "o", "n", "v", "e", "r", "t", "e", "r", "s" >>
      [] name = "llm" -> << "l", "l", "m" >>
      [] name = "azure" -> << "a", "z", "u", "r", "e" >>
      [] name = "ocr" -> << "o", "c", "r" >>
      [] name = "audio" -> << "a", "u", "d", "i", "o" >>
      [] name = "server" -> << "s", "e", "r", "v", "e", "r" >>
      [] name = "conversion" -> << "c", "o", "n", "v", "e", "r", "s", "i", "o", "n" >>

\* str(n) of an int.
RECURSIVE NatDigits(_)
NatDigits(n) ==
    IF n < 10 THEN << HexDigits[n + 1] >>
    ELSE Append(NatDigits(n \div 10), HexDigits[(n % 10) + 1])
int_repr(n) == IF n < 0 THEN << "-" >> \o NatDigits(0 - n) ELSE NatDigits(n)

\* repr(x) of a float counted in tenths.
float_repr(tenths) ==
    LET a == IF tenths < 0 THEN 0 - tenths ELSE tenths
    IN  (IF tenths < 0 THEN << "-" >> ELSE << >>)
            \o NatDigits(a \div 10) \o << "." >> \o NatDigits(a % 10)

\* The value of a run of decimal digits.
RECURSIVE DigitsValue(_)
DigitsValue(s) ==
    IF s = << >> THEN 0
    ELSE 10 * DigitsValue(SubSeq(s, 1, Len(s) - 1)) + HexValue(s[Len(s)])

AllDigits(s) == s # << >> /\ \A i \in 1..Len(s) : s[i] \in Digits
Unsigned(s) == IF s # << >> /\ s[1] \in { "+", "-" } THEN Tail(s) ELSE s
Signed(s, n) == IF s # << >> /\ s[1] = "-" THEN 0 - n ELSE n

\* int(text): surrounding whitespace and a sign are allowed; anything else
\* but digits is a ValueError.
int_accepts(text) == AllDigits(Unsigned(strip(text)))
int_of(text) == Signed(strip(text), DigitsValue(Unsigned(strip(text))))

\* float(text), in tenths, with at most one digit after the point.
float_accepts(text) ==
    LET u == Unsigned(strip(text))
        p == Find(u, ".")
    IN  \/ AllDigits(u)
        \/ /\ p > 0
           /\ p = Len(u) - 1
           /\ AllDigits(SubSeq(u, 1, p - 1))
           /\ u[Len(u)] \in Digits
float_of(text) ==
    LET u == Unsigned(strip(text))
        p == Find(u, ".")
    IN  Signed(strip(text),
               IF p = 0 THEN 10 * DigitsValue(u)
               ELSE 10 * DigitsValue(SubSeq(u, 1, p - 1)) + HexValue(u[Len(u)]))

\* json: a string is written between quotes with its quotes, backslashes
\* and control characters escaped (ensure_ascii=False).
RECURSIVE json_escape(_)
json_escape(s) ==
    IF s = << >> THEN << >>
    ELSE (CASE Head(s) = "\"" -> << "\\", "\"" >>
            [] Head(s) = "\\" -> << "\\", "\\" >>
            [] Head(s) = "\n" -> << "\\", "n" >>
            [] Head(s) = "\t" -> << "\\", "t" >>
            [] Head(s) = "\r" -> << "\\", "r" >>
            [] OTHER -> << Head(s) >>) \o json_escape(Tail(s))

RECURSIVE json_unescape(_)
json_unescape(s) ==
    IF s = << >> THEN << >>
    ELSE IF Head(s) = "\\" /\ Len(s) >= 2
         THEN << (CASE s[2] = "n" -> "\n"
                    [] s[2] = "t" -> "\t"
                    [] s[2] = "r" -> "\r"
                    [] OTHER -> s[2]) >> \o json_unescape(SubSeq(s, 3, Len(s)))
         ELSE << Head(s) >> \o json_unescape(Tail(s))

\* json.dump of a value.
RECURSIVE json_dump(_)
json_dump(v) ==
    CASE v.py = "NoneType" -> JScalar(<< "n", "u", "l", "l" >>)
      [] v.py = "bool" -> JScalar(IF v.n = 1 THEN << "t", "r", "u", "e" >> ELSE << "f", "a", "l", "s", "e" >>)
      [] v.py = "int" -> JScalar(int_repr(v.n))
      [] v.py = "float" -> JScalar(float_repr(v.n))
      [] v.py = "str" -> JScalar(<< "\"" >> \o json_escape(v.s) \o << "\"" >>)
      [] v.py = "list" -> JArray([i \in 1..Len(v.l) |-> json_dump(v.l[i])])
      [] v.py = "dict" -> JObject([k \in DOMAIN v.d |-> json_dump(v.d[k])])

\* json.load of a document that is JSON.
RECURSIVE json_load(_)
json_load(doc) ==
    CASE doc.j = "array" -> PyList([i \in 1..Len(doc.items) |-> json_load(doc.items[i])])
      [] doc.j = "object" -> PyDict([k \in DOMAIN doc.members |-> json_load(doc.members[k])])
      [] doc.j = "scalar" ->
            IF doc.text[1] = "\"" THEN PyStr(json_unescape(SubSeq(doc.text, 2, Len(doc.text) - 1)))
            ELSE IF doc.text = << "n", "u", "l", "l" >> THEN PyNone
            ELSE IF doc.text = << "t", "r", "u", "e" >> THEN PyBool(TRUE)
            ELSE IF doc.text = << "f", "a", "l", "s", "e" >> THEN PyBool(FALSE)
            ELSE IF Find(doc.text, ".") > 0 THEN PyFloat(float_of(doc.text))
            ELSE PyInt(int_of(doc.text))

\* dataclasses.asdict(config)
asdict(config) == PyDict([sec \in DOMAIN config |-> PyDict(config[sec])])

\* `name in data`: a TypeError unless data is a dict, a list or a str.
SupportsIn(data) == data.py \in { "dict", "list", "str" }
In(name, data) ==
    CASE data.py = "dict" -> name \in DOMAIN data.d
      [] data.py = "list" -> \E i \in 1..Len(data.l) : data.l[i] = PyStr(SectionText(name))
      [] data.py = "str" -> Contains(data.s, SectionText(name))
      [] OTHER -> FALSE

\* Settings(**value) of one section: a TypeError unless value is a dict whose
\* keys are field names; the fields left out take their defaults.
SectionAccepts(sec, value) ==
    /\ value.py = "dict"
    /\ DOMAIN value.d \subseteq DOMAIN MarkItDownConfig[sec]
SectionOf(sec, value) ==
    [f \in DOMAIN MarkItDownConfig[sec] |->
        IF f \in DOMAIN value.d THEN value.d[f] ELSE MarkItDownConfig[sec][f]]

\* Whether _dict_to_config raises: the TypeError of `in` on a value that
\* has none, of indexing a list or a str by a name, or of a section that
\* cannot be built.
DictRaises(data) ==
    \/ ~SupportsIn(data)
    \/ \E sec \in Sections :
           In(sec, data) /\ (data.py # "dict" \/ ~SectionAccepts(sec, data.d[sec]))

\* A plausible bug: the last section is not read back.
dict_to_config_six(data) ==
    IF DictRaises(data) THEN [raised |-> TRUE, config |-> MarkItDownConfig]
    ELSE [raised |-> FALSE,
          config |-> [sec \in Sections |->
                         IF sec # "conversion" /\ In(sec, data) THEN SectionOf(sec, data.d[sec])
                         ELSE MarkItDownConfig[sec]]]

\* ConfigManager._dict_to_config: the configuration, or that it raised.
dict_to_config(data) ==
    IF DictRaises(data) THEN [raised |-> TRUE, config |-> MarkItDownConfig]
    ELSE [raised |-> FALSE,
          config |-> [sec \in Sections |->
                         IF In(sec, data) THEN SectionOf(sec, data.d[sec])
                         ELSE MarkItDownConfig[sec]]]

\* env_mappings of _load_from_environment, in its order.
env_mappings ==
    << << "OPENAI_API_KEY", "llm", "openai_api_key" >>,
       << "LLM_MODEL", "llm", "llm_model" >>,
       << "AZURE_DOCUMENT_INTELLIGENCE_ENDPOINT", "azure", "endpoint" >>,
       << "AZURE_DOCUMENT_INTELLIGENCE_KEY", "azure", "key" >>,
       << "TESSERACT_PATH", "ocr", "tesseract_path" >>,
       << "WHISPER_MODEL", "audio", "whisper_model" >>,
       << "LOG_LEVEL", "server", "log_level" >>,
       << "LOG_FILE", "server", "log_file" >>,
       << "KOREAN_SUPPORT", "converters", "korean_support" >>,
       << "MAX_WORKERS", "converters", "max_workers" >> >>
EnvVars == { env_mappings[i][1] : i \in 1..Len(env_mappings) }

\* str.lower()
LowerText(s) == [i \in 1..Len(s) |-> ToLower(s[i])]
TruthyTexts == { << "t", "r", "u", "e" >>, << "1" >>, << "y", "e", "s" >>, << "o", "n" >> }

\* The type conversion of one environment value for a field holding `old`:
\* the value to set, or a ValueError.
EnvRejected(old, text) ==
    \/ old.py = "int" /\ ~int_accepts(text)
    \/ old.py = "float" /\ ~float_accepts(text)
EnvConverted(old, text) ==
    CASE old.py = "bool" -> PyBool(LowerText(text) \in TruthyTexts)
      [] old.py = "int" -> PyInt(int_of(text))
      [] old.py = "float" -> PyFloat(float_of(text))
      [] OTHER -> PyStr(text)

\* ConfigManager._load_from_environment: the configuration after the
\* overrides; env maps each variable to PyNone (unset) or to a str.
load_from_environment(config, env) ==
    [sec \in DOMAIN config |->
        [f \in DOMAIN config[sec] |->
            IF \E i \in 1..Len(env_mappings) :
                   /\ env_mappings[i][2] = sec /\ env_mappings[i][3] = f
                   /\ env[env_mappings[i][1]] # PyNone
                   /\ ~EnvRejected(config[sec][f], env[env_mappings[i][1]].s)
            THEN LET i == CHOOSE i \in 1..Len(env_mappings) :
                              env_mappings[i][2] = sec /\ env_mappings[i][3] = f
                 IN  EnvConverted(config[sec][f], env[env_mappings[i][1]].s)
            ELSE config[sec][f]]]

\* The warnings _load_from_environment logs, in order.
EnvWarning(config, env, m) ==
    /\ env[m[1]] # PyNone
    /\ EnvRejected(config[m[2]][m[3]], env[m[1]].s)
\* A plausible bug: a value that is no float is skipped without a warning.
environment_warnings_int(config, env) ==
    LET bad == SelectSeq(env_mappings, LAMBDA m : EnvWarning(config, env, m)
                                                      /\ config[m[2]][m[3]].py = "int")
    IN  [i \in 1..Len(bad) |-> << "Invalid integer value", bad[i][1] >>]

environment_warnings(config, env) ==
    LET bad == SelectSeq(env_mappings, LAMBDA m : EnvWarning(config, env, m))
    IN  [i \in 1..Len(bad) |->
            << IF config[bad[i][2]][bad[i][3]].py = "int" THEN "Invalid integer value"
               ELSE "Invalid float value", bad[i][1] >>]

\* A configuration file: whether it exists and, if so, its content.
NoFile == [exists |-> FALSE, doc |-> JInvalid]
FileOf(doc) == [exists |-> TRUE, doc |-> doc]

\* The `try` of _load_config: whether reading the file raised.
FileFails(file) ==
    \/ file.doc.j = "invalid"
    \/ dict_to_config(json_load(file.doc)).raised

\* ConfigManager._load_config, and so ConfigManager(path): the configuration
\* and the warnings logged.  No exception leaves it.
load_config(file, env) ==
    LET config == IF file.exists /\ ~FileFails(file)
                  THEN dict_to_config(json_load(file.doc)).config
                  ELSE MarkItDownConfig
    IN  [raised |-> FALSE,
         config |-> load_from_environment(config, env),
         warnings |-> (IF file.exists /\ FileFails(file)
                       THEN << << "Failed to load config", "file" >> >> ELSE << >>)
                      \o environment_warnings(config, env)]

\* ConfigManager.save_config: the file written.
save_config(config) == FileOf(json_dump(asdict(config)))

\* ConfigManager.update_config(updates): a field named by the updates is
\* set if its section and the field exist, whatever the value; the rest of
\* the updates is ignored.
update_config(config, updates) ==
    [sec \in DOMAIN config |->
        [f \in DOMAIN config[sec] |->
            IF sec \in DOMAIN updates /\ f \in DOMAIN updates[sec]
            THEN updates[sec][f] ELSE config[sec][f]]]

\* The updates tried.
ConfigUpdates ==
    { << >>,
      [llm |-> [llm_model |-> PyStr(<< "D", "E", "B", "U", "G" >>)]],
      [llm |-> [bogus |-> PyInt(1)], logging |-> [level |-> PyInt(1)]],
      [converters |-> [korean_support |-> PyBool(FALSE), max_workers |-> PyStr(<< "8" >>)],
       server |-> [log_file |-> PyNone]] }

\* The values tried for a field, by the type of its default (a field whose
\* default is None is an Optional[str]).
ConfigTexts == { << >>, << "a", "\"", "b" >>, << "C", ":", "\\", "x" >>, << "l", "\n", "m" >>, << "D", "E", "B", "U", "G" >> }
ValuesLike(v) ==
    CASE v.py = "bool" -> { PyBool(TRUE), PyBool(FALSE) }
      [] v.py = "int" -> { v, PyInt(0), PyInt(12), PyInt(0 - 2) }
      [] v.py = "float" -> { v, PyFloat(0), PyFloat(10), PyFloat(45) }
      [] v.py = "NoneType" -> { PyNone } \cup { PyStr(t) : t \in ConfigTexts }
      [] v.py = "str" -> { v } \cup { PyStr(t) : t \in ConfigTexts }
      [] v.py = "list" -> { v, PyList(<< >>), PyList(<< PyStr(<< "j", "a" >>) >>) }

\* A value of the field other than its default.
OtherValue(v) ==
    CASE v.py = "bool" -> PyBool(v.n = 0)
      [] v.py = "int" -> PyInt(v.n + 8)
      [] v.py = "float" -> PyFloat(v.n + 6)
      [] v.py = "NoneType" -> PyStr(<< "a", "\"", "b" >>)
      [] v.py = "str" -> PyStr(<< "C", ":", "\\", "x" >>)
      [] v.py = "list" -> PyList(<< PyStr(<< "j", "a" >>) >>)

\* The configurations a manager may hold: any set of sections with every
\* field changed, or one field set to any of its values.
Configs ==
    { [sec \in Sections |->
          IF sec \in changed
          THEN [f \in DOMAIN MarkItDownConfig[sec] |-> OtherValue(MarkItDownConfig[sec][f])]
          ELSE MarkItDownConfig[sec]] : changed \in SUBSET Sections }
    \cup UNION { UNION { { [MarkItDownConfig EXCEPT ![sec][f] = v] :
                             v \in ValuesLike(MarkItDownConfig[sec][f]) } :
                         f \in DOMAIN MarkItDownConfig[sec] } : sec \in Sections }

\* The environments: nothing set, or one variable set to a text.
EnvTexts == { << "O", "N" >>, << "8" >>, << " ", "1", "2", " " >>, << "a", "b", "c" >>, << "4", ".", "5" >>, << >> }
NoEnvironment == [var \in EnvVars |-> PyNone]
Environments ==
    { NoEnvironment }
    \cup { [NoEnvironment EXCEPT ![var] = PyStr(t)] : var \in EnvVars, t \in EnvTexts }

\* The configuration files met by a new manager.
ObjectFile(members) == FileOf(JObject(members))
ConfigFiles ==
    { NoFile,
      FileOf(JInvalid),
      FileOf(JScalar(<< "5" >>)),
      FileOf(JScalar(<< "n", "u", "l", "l" >>)),
      FileOf(JScalar(<< "\"", "x", " ", "l", "l", "m", "\"" >>)),
      FileOf(JArray(<< >>)),
      FileOf(JArray(<< JScalar(<< "\"", "l", "l", "m", "\"" >>) >>)),
      ObjectFile(<< >>),
      ObjectFile([logging |-> JObject([level |-> JScalar(<< "1" >>)])]),
      ObjectFile([llm |-> JScalar(<< "n", "u", "l", "l" >>)]),
      ObjectFile([llm |-> JObject([bogus |-> JScalar(<< "1" >>)])]),
      ObjectFile([llm |-> JObject([openai_api_key |-> JScalar(<< "\"", "k", "\"" >>)]),
                  azure |-> JObject([bogus |-> JScalar(<< "1" >>)])]),
      ObjectFile([llm |-> JObject([openai_api_key |-> JScalar(<< "\"", "k", "\"" >>)])]),
      ObjectFile([converters |-> JObject([max_workers |-> JScalar(<< "8" >>)])]),
      ObjectFile([converters |-> JObject([max_workers |-> JScalar(<< "\"", "m", "a", "n", "y", "\"" >>)])]),
      ObjectFile([converters |-> JObject([max_workers |-> JScalar(<< "4", ".", "5" >>)])]),
      ObjectFile([converters |-> JObject([korean_support |-> JScalar(<< "3" >>)])]),
      ObjectFile([converters |-> JObject([korean_support |-> JScalar(<< "n", "u", "l", "l" >>)])]) }

NoOutput == << "none", "" >>

CfgOff ==
    /\ cfgPc = "off"
    /\ cfg_config = MarkItDownConfig
    /\ cfg_file = NoFile
    /\ cfg_env = NoEnvironment
    /\ cfg_loaded = MarkItDownConfig
    /\ cfg_warnings = << >>
    /\ cfg_printed = NoOutput
    /\ cfg_exit = 0

\* Either a manager holding a configuration it is about to save to a path
\* with no file, or a path with some file that a manager is about to read.
CfgInit ==
    /\ \/ cfgPc = "manager" /\ cfg_config \in Configs /\ cfg_file = NoFile
       \/ cfgPc = "file" /\ cfg_config = MarkItDownConfig /\ cfg_file \in ConfigFiles
    /\ cfg_env \in Environments
    /\ cfg_loaded = MarkItDownConfig
    /\ cfg_warnings = << >>
    /\ cfg_printed = NoOutput
    /\ cfg_exit = 0

\* ConfigManager.save_config(path)
SaveConfig ==
    /\ cfgPc = "manager"
    /\ cfg_file' = save_config(cfg_config)
    /\ cfgPc' = "saved"
    /\ UNCHANGED <<cfg_config, cfg_env, cfg_loaded, cfg_warnings, cfg_printed, cfg_exit>>
    /\ UNCHANGED notCfg

\* ConfigManager(path)
NewConfigManager ==
    /\ cfgPc \in { "saved", "file" }
    /\ LET loaded == load_config(cfg_file, cfg_env)
       IN  /\ cfg_loaded' = loaded.config
           /\ cfg_warnings' = loaded.warnings
    /\ cfgPc' = (IF cfgPc = "saved" THEN "reloaded" ELSE "loaded")
    /\ UNCHANGED <<cfg_config, cfg_file, cfg_env, cfg_printed, cfg_exit>>
    /\ UNCHANGED notCfg

\* cli.config_command, action "validate"
ConfigValidate ==
    /\ cfgPc = "file"
    /\ LET loaded == load_config(cfg_file, cfg_env)
       IN  /\ cfg_loaded' = loaded.config
           /\ cfg_warnings' = loaded.warnings
           /\ cfg_printed' = (IF loaded.raised THEN << "stderr", "Configuration error" >>
                              ELSE << "stdout", "Configuration is valid" >>)
           /\ cfg_exit' = (IF loaded.raised THEN 1 ELSE 0)
    /\ cfgPc' = "validated"
    /\ UNCHANGED <<cfg_config, cfg_file, cfg_env>>
    /\ UNCHANGED notCfg

\* ConfigManager.update_config(updates) on the manager that loaded.
UpdateConfig ==
    /\ cfgPc \in { "loaded", "reloaded" }
    /\ \E updates \in ConfigUpdates : cfg_loaded' = update_config(cfg_loaded, updates)
    /\ cfgPc' = "updated"
    /\ UNCHANGED <<cfg_config, cfg_file, cfg_env, cfg_warnings, cfg_printed, cfg_exit>>
    /\ UNCHANGED notCfg

\* ConfigManager.create_default_config(path): the file is written with
\* the defaults, not with the configuration the manager holds.
CreateDefaultConfig ==
    /\ cfgPc = "manager"
    /\ cfg_file' = save_config(MarkItDownConfig)
    /\ cfgPc' = "created"
    /\ UNCHANGED <<cfg_config, cfg_env, cfg_loaded, cfg_warnings, cfg_printed, cfg_exit>>
    /\ UNCHANGED notCfg

\* How `config create` is called: with -o (the file of the state is the
\* one at that path), with neither -o nor --config (it is the one at the
\* resolved default path), or with --config alone (it is the one at the
\* --config path, which create ignores).
CreateModes == { "output", "default", "config" }

\* cli.config_command, action "create": create_default_config_file(output)
\* builds ConfigManager(), which reads the file at the resolved default
\* path and the override variables, then writes the defaults to the output
\* path, to the manager's own path if there is none.
ConfigCreate ==
    /\ cfgPc = "file"
    /\ \E mode \in CreateModes, read \in ConfigFiles :
           LET loaded == load_config(read, cfg_env)
           IN  /\ mode = "default" => read = cfg_file
               /\ cfg_loaded' = loaded.config
               /\ cfg_warnings' = loaded.warnings
               /\ cfg_file' = (IF mode = "config" THEN cfg_file
                               ELSE save_config(MarkItDownConfig))
    /\ cfg_printed' = << "stdout", "Created default configuration at: " >>
    /\ cfg_exit' = 0
    /\ cfgPc' = "created"
    /\ UNCHANGED <<cfg_config, cfg_env>>
    /\ UNCHANGED notCfg

CfgNext ==
    \/ SaveConfig \/ NewConfigManager \/ ConfigValidate
    \/ UpdateConfig \/ CreateDefaultConfig \/ ConfigCreate

(***************************************************************************)
(* The installer's --setup (voidlight_markitdown_mcp/cli.py).  The host    *)
(* configuration file is a JSON document whose objects keep the order of   *)
(* their members, as the text does and as the dicts json.load builds do.   *)
(***************************************************************************)
\* A JSON object as written: its <<key, value>> members in order.
JOrdered(pairs) == [j |-> "ordered", text |-> << >>, items |-> pairs, members |-> << >>]

\* A dict: its <<key, value>> items in insertion order, no key twice.
OrderedDict(pairs) == [py |-> "dict", n |-> 0, s |-> << >>, l |-> pairs, d |-> << >>]

Keys(pairs) == { pairs[i][1] : i \in 1..Len(pairs) }
KeyIndex(pairs, key) == CHOOSE i \in 1..Len(pairs) : pairs[i][1] = key

\* d[key] = value on the items of a dict: in place if the key is there,
\* at the end otherwise.
SetItem(pairs, key, value) ==
    IF key \in Keys(pairs)
    THEN [pairs EXCEPT ![KeyIndex(pairs, key)] = << key, value >>]
    ELSE Append(pairs, << key, value >>)

\* The dict of the members of an object: a key written twice keeps its first
\* place and its last value.
RECURSIVE DictItems(_)
DictItems(pairs) ==
    IF pairs = << >> THEN << >>
    ELSE SetItem(DictItems(SubSeq(pairs, 1, Len(pairs) - 1)),
                 pairs[Len(pairs)][1], pairs[Len(pairs)][2])

\* json.load of the host file.
RECURSIVE host_load(_)
host_load(doc) ==
    CASE doc.j = "ordered" ->
            OrderedDict(DictItems([i \in 1..Len(doc.items) |->
                                      << doc.items[i][1], host_load(doc.items[i][2]) >>]))
      [] doc.j = "array" -> PyList([i \in 1..Len(doc.items) |-> host_load(doc.items[i])])
      [] OTHER -> json_load(doc)

\* json.dump to the host file.
RECURSIVE host_dump(_)
host_dump(v) ==
    CASE v.py = "dict" ->
            JOrdered([i \in 1..Len(v.l) |-> << v.l[i][1], host_dump(v.l[i][2]) >>])
      [] v.py = "list" -> JArray([i \in 1..Len(v.l) |-> host_dump(v.l[i])])
      [] OTHER -> json_dump(v)

McpServersText == << "m", "c", "p", "S", "e", "r", "v", "e", "r", "s" >>

\* The entry setup_claude_desktop writes.
VoidlightEntry ==
    OrderedDict(<< << "command", PyStr(<< "v", "o", "i", "d", "l", "i", "g", "h", "t", "-", "m", "a", "r", "k", "i", "t", "d", "o", "w", "n", "-", "m", "c", "p" >>) >>,
                   << "args", PyList(<< >>) >>,
                   << "env", OrderedDict(<< >>) >> >>)

\* `"mcpServers" in config`, for the values that have an `in`.
HasMcpServers(config) ==
    CASE config.py = "dict" -> "mcpServers" \in Keys(config.l)
      [] config.py = "list" -> PyStr(McpServersText) \in Range(config.l)
      [] config.py = "str" -> Contains(config.s, McpServersText)
      [] OTHER -> FALSE

\* A plausible bug: the section is emptied on every run.
with_mcp_servers_reset(config) ==
    OrderedDict(SetItem(config.l, "mcpServers", OrderedDict(<< >>)))

\* "Ensure mcpServers section exists", on a dict.
with_mcp_servers(config) ==
    IF HasMcpServers(config) THEN config
    ELSE OrderedDict(SetItem(config.l, "mcpServers", OrderedDict(<< >>)))

\* Whether the two assignments raise a TypeError: config is no dict, or
\* config["mcpServers"] is none.
SetupRaises(config) ==
    \/ config.py # "dict"
    \/ with_mcp_servers(config).l[KeyIndex(with_mcp_servers(config).l, "mcpServers")][2].py # "dict"

\* The configuration setup_claude_desktop writes, on a dict with a dict
\* under "mcpServers".
with_voidlight(config) ==
    LET ensured == with_mcp_servers(config).l
        servers == ensured[KeyIndex(ensured, "mcpServers")][2]
    IN  OrderedDict(SetItem(ensured, "mcpServers",
                            OrderedDict(SetItem(servers.l, "voidlight-markitdown",
                                                VoidlightEntry))))

\* setup_claude_desktop(): what it returns ("True", "False", or the
\* exception that leaves it) and the host file afterwards.
setup_claude_desktop(dir, file) ==
    LET config == IF file.exists /\ file.doc.j # "invalid"
                  THEN host_load(file.doc) ELSE OrderedDict(<< >>)
    IN  IF ~dir THEN [returned |-> "False", file |-> file]
        ELSE IF SetupRaises(config) THEN [returned |-> "TypeError", file |-> file]
        ELSE [returned |-> "True", file |-> FileOf(host_dump(with_voidlight(config)))]

\* The host files: none, a text that is not JSON, a document that is no
\* object, and objects with and without "mcpServers".
ServerNames == { "voidlight-markitdown", "filesystem" }
ServerValues ==
    { host_dump(VoidlightEntry),
      JOrdered(<< << "command", JScalar(<< "\"", "n", "p", "x", "\"" >>) >>,
                  << "args", JArray(<< JScalar(<< "\"", "-", "y", "\"" >>), JScalar(<< "1", ".", "5" >>) >>) >> >>),
      JScalar(<< "n", "u", "l", "l" >>) }
ServerMaps ==
    UNION { [1..n -> ServerNames \X ServerValues] : n \in 0..MaxServers }
McpValues ==
    { JOrdered(servers) : servers \in ServerMaps }
    \cup { JScalar(<< "n", "u", "l", "l" >>), JArray(<< >>), JScalar(<< "\"", "x", "\"" >>) }
Theme == << "theme", JScalar(<< "\"", "d", "a", "\\", "n", "r", "k", "\"" >>) >>
HostDocuments ==
    { JInvalid, JScalar(<< "5" >>), JScalar(<< "\"", "m", "c", "p", "S", "e", "r", "v", "e", "r", "s", "\"" >>), JArray(<< >>),
      JArray(<< JScalar(<< "\"", "m", "c", "p", "S", "e", "r", "v", "e", "r", "s", "\"" >>) >>),
      JOrdered(<< >>), JOrdered(<< Theme >>),
      JOrdered(<< Theme, << "theme", JScalar(<< "t", "r", "u", "e" >>) >> >>) }
    \cup UNION { { JOrdered(<< << "mcpServers", v >> >>),
                   JOrdered(<< Theme, << "mcpServers", v >> >>),
                   JOrdered(<< << "mcpServers", v >>, Theme >>),
                   JOrdered(<< << "mcpServers", v >>, Theme,
                               << "mcpServers", JOrdered(<< >>) >> >>) } : v \in McpValues }
HostFiles == { NoFile } \cup { FileOf(doc) : doc \in HostDocuments }

InstOff ==
    /\ instPc = "off"
    /\ inst_dir = FALSE
    /\ inst_file = NoFile
    /\ inst_original = NoFile
    /\ inst_files = << >>
    /\ inst_returned = << >>

\* A host with or without the directory of the host application; without
\* it there is no file.
InstInit ==
    /\ instPc = "ready"
    /\ inst_dir \in BOOLEAN
    /\ inst_file \in (IF inst_dir THEN HostFiles ELSE { NoFile })
    /\ inst_original = inst_file
    /\ inst_files = << >>
    /\ inst_returned = << >>

\* One run of setup_claude_desktop(); the model stops after the second.
SetupClaudeDesktop ==
    /\ instPc = "ready"
    /\ Len(inst_files) < 2
    /\ LET run == setup_claude_desktop(inst_dir, inst_file)
       IN  /\ inst_file' = run.file
           /\ inst_files' = Append(inst_files, run.file)
           /\ inst_returned' = Append(inst_returned, run.returned)
    /\ UNCHANGED <<instPc, inst_dir, inst_original>>
    /\ UNCHANGED notInst

InstNext == SetupClaudeDesktop

(***************************************************************************)
(* The health check's main (health_check.py).                              *)
(***************************************************************************)
\* The check functions, in the order of `checks`.
checks ==
    << "check_system_info", "check_python", "check_nodejs", "check_dependencies",
       "check_mcp_server", "check_claude_desktop", "check_environment_variables",
       "check_network_connectivity", "check_file_permissions", "run_comprehensive_test" >>

\* What a check function returns when it returns: check_system_info its
\* dict, the next five a bool, the last four nothing.
Returns(check) ==
    CASE check = "check_system_info" -> { "info" }
      [] check \in { "check_python", "check_nodejs", "check_dependencies",
                     "check_mcp_server", "check_claude_desktop" } -> { "True", "False" }
      [] OTHER -> { "None" }

\* What main appends to results for a check that returned.
Counted(check, result) ==
    IF check = "check_system_info" THEN TRUE
    ELSE IF result # "None" THEN result = "True" ELSE TRUE

\* sum(results)
passed_of(rs) == Cardinality({ i \in 1..Len(rs) : rs[i] })

\* The lines typed at the prompt, and whether one asks for the report.
Responses == { << "y" >>, << " ", "Y", "E", "S", " " >>, << "n" >>, << "y", "y" >>, << >> }
WantsReport(response) == strip(LowerText(response)) \in { << "y" >>, << "y", "e", "s" >> }

HcOff ==
    /\ hcPc = "off"
    /\ hc_ran = << >>
    /\ hc_raised = {}
    /\ hc_results = << >>
    /\ hc_summary = "none"
    /\ hc_response = << >>
    /\ hc_report = "none"
    /\ hc_exit = "none"

HcInit ==
    /\ hcPc = "checks"
    /\ hc_ran = << >>
    /\ hc_raised = {}
    /\ hc_results = << >>
    /\ hc_summary = "none"
    /\ hc_response = << >>
    /\ hc_report = "none"
    /\ hc_exit = "none"

\* One turn of the loop in which the check returns.
CheckReturns ==
    /\ hcPc = "checks"
    /\ Len(hc_results) < Len(checks)
    /\ LET check == checks[Len(hc_results) + 1]
       IN  /\ \E result \in Returns(check) :
                   hc_results' = Append(hc_results, Counted(check, result))
           /\ hc_ran' = Append(hc_ran, check)
    /\ UNCHANGED <<hcPc, hc_raised, hc_summary, hc_response, hc_report, hc_exit>>
    /\ UNCHANGED notHc

\* One turn of the loop in which the check raises an Exception.
CheckRaises ==
    /\ hcPc = "checks"
    /\ Len(hc_results) < Len(checks)
    /\ hc_ran' = Append(hc_ran, checks[Len(hc_results) + 1])
    /\ hc_raised' = hc_raised \cup { Len(hc_results) + 1 }
    /\ hc_results' = Append(hc_results, FALSE)
    /\ UNCHANGED <<hcPc, hc_summary, hc_response, hc_report, hc_exit>>
    /\ UNCHANGED notHc

\* The summary after the loop.
Summarize ==
    /\ hcPc = "checks"
    /\ Len(hc_results) = Len(checks)
    /\ hc_summary' = (IF passed_of(hc_results) = Len(hc_results) THEN "all passed"
                      ELSE "some failed")
    /\ hcPc' = "prompt"
    /\ UNCHANGED <<hc_ran, hc_raised, hc_results, hc_response, hc_report, hc_exit>>
    /\ UNCHANGED notHc

\* The answer read is not a yes: main returns passed == total.
AnswerNo ==
    /\ hcPc = "prompt"
    /\ \E response \in Responses :
           /\ ~WantsReport(response)
           /\ hc_response' = response
    /\ hc_exit' = (IF passed_of(hc_results) = Len(hc_results) THEN "0" ELSE "1")
    /\ hcPc' = "exited"
    /\ UNCHANGED <<hc_ran, hc_raised, hc_results, hc_summary, hc_report>>
    /\ UNCHANGED notHc

\* The answer read is a yes and generate_diagnostic_report returns.
AnswerYes ==
    /\ hcPc = "prompt"
    /\ \E response \in Responses :
           /\ WantsReport(response)
           /\ hc_response' = response
    /\ hc_report' = "written"
    /\ hc_exit' = (IF passed_of(hc_results) = Len(hc_results) THEN "0" ELSE "1")
    /\ hcPc' = "exited"
    /\ UNCHANGED <<hc_ran, hc_raised, hc_results, hc_summary>>
    /\ UNCHANGED notHc

\* The answer read is a yes and generate_diagnostic_report raises (a check
\* it calls again, or the open of the report file): the handler under
\* __main__ exits with 1.
ReportRaises ==
    /\ hcPc = "prompt"
    /\ \E response \in Responses :
           /\ WantsReport(response)
           /\ hc_response' = response
    /\ hc_report' = "raised"
    /\ hc_exit' = "1"
    /\ hcPc' = "exited"
    /\ UNCHANGED <<hc_ran, hc_raised, hc_results, hc_summary>>
    /\ UNCHANGED notHc

\* input() raises EOFError, the input being at its end: the handler under
\* __main__ exits with 1.
InputRaises ==
    /\ hcPc = "prompt"
    /\ hc_response' = << "E", "O", "F", "E", "r", "r", "o", "r" >>
    /\ hc_exit' = "1"
    /\ hcPc' = "exited"
    /\ UNCHANGED <<hc_ran, hc_raised, hc_results, hc_summary, hc_report>>
    /\ UNCHANGED notHc

HcNext ==
    \/ CheckReturns \/ CheckRaises \/ Summarize
    \/ AnswerNo \/ AnswerYes \/ ReportRaises \/ InputRaises

(***************************************************************************)
(* Titles (core/base_converter.py, _format_title): every built-in          *)
(* converter passes the title it found through _format_title, and the      *)
(* engine's Korean post-processing hands the title on as it is.            *)
(***************************************************************************)
\* The candidates: a long word with, before it, after it and after one
\* more letter, up to two characters that are a space, a letter or a
\* full-width comma, and a last letter or none; and those pieces alone.
Pad(n) == [i \in 1..n |-> "a"]
TitleChars == { " ", "x", "U+FF0C" }
TitleLeads == { << >>, << " " >>, << "U+FF0C" >> }
TitleEnds == UNION { [1..n -> TitleChars] : n \in 0..2 }
TitleTails == { << >>, << "b" >> }
TitleCandidates ==
    { v1 \o Pad(p) \o v2 \o << "a" >> \o v3 \o v4 :
          v1 \in TitleLeads, v2 \in TitleEnds, v3 \in TitleEnds, v4 \in TitleTails,
          p \in (FormatTitleLimit - 4 - MaxTitleSlack)..(FormatTitleLimit + MaxTitleSlack) }
    \cup TitleEnds

TtlOff ==
    /\ ttlPc = "off"
    /\ ttl_korean = FALSE
    /\ ttl_candidate = << >>
    /\ ttl_title = None1

\* A converter that found a candidate title, or none.
TtlInit ==
    /\ ttlPc = "start"
    /\ ttl_korean \in BOOLEAN
    /\ ttl_candidate \in TitleCandidates \cup { None1 }
    /\ ttl_title = None1

\* convert: the title of the result is _format_title(candidate).
FormatTitle ==
    /\ ttlPc = "start"
    /\ ttl_candidate # None1
    /\ ttl_title' = format_title(ttl_korean, ttl_candidate)
    /\ ttlPc' = "converted"
    /\ UNCHANGED <<ttl_korean, ttl_candidate>>
    /\ UNCHANGED notTtl

\* convert: no candidate, the result has no title.
NoTitle ==
    /\ ttlPc = "start"
    /\ ttl_candidate = None1
    /\ ttl_title' = None1
    /\ ttlPc' = "converted"
    /\ UNCHANGED <<ttl_korean, ttl_candidate>>
    /\ UNCHANGED notTtl

\* MarkItDown._apply_korean_optimization: title=result.title.
ApplyKoreanOptimization ==
    /\ ttlPc = "converted"
    /\ ttl_title' = ttl_title
    /\ ttlPc' = "optimized"
    /\ UNCHANGED <<ttl_korean, ttl_candidate>>
    /\ UNCHANGED notTtl

TtlNext == FormatTitle \/ NoTitle \/ ApplyKoreanOptimization

(***************************************************************************)
(* Remote fetch: MarkItDown._convert_http_uri.                             *)
(***************************************************************************)

\* requests.get raises one of these before a response exists; both are
\* subclasses of requests.RequestException, as is the HTTPError of
\* raise_for_status.
GetFaults == { "ConnectionError", "Timeout" }
Statuses == { 200, 404, 500 }
ContentTypes == { NoMime, <<"text", "html">> }
Dispositions == { None, "inline", "attachment; filename=\"a.pdf\"" }
Bodies == { "page", "junk" }
\* response.encoding: what requests takes from the content type, None if
\* it finds nothing.
Encodings == { None, "ISO-8859-1", "utf-8" }
RemoteUris == { "http://host/a", "https://host/a" }

Remotes ==
    [fault : GetFaults \cup { "none" }, status : Statuses, content_type : ContentTypes,
     disposition : Dispositions, body : Bodies, encoding : Encodings]

\* _extract_filename_from_disposition
extract_filename_from_disposition(disposition) ==
    CASE disposition = "attachment; filename=\"a.pdf\"" -> "a.pdf"
      [] OTHER -> None

\* response.raise_for_status() raises HTTPError for a 4xx or 5xx status.
HttpErrorStatus(status) == status >= 400

\* The descriptor of the response: StreamInfo(mimetype=content-type,
\* charset=response.encoding), then filename and extension from
\* Content-Disposition.
response_stream_info(remote) ==
    LET filename == IF Truthy(remote.disposition)
                    THEN extract_filename_from_disposition(remote.disposition)
                    ELSE None
        first == StreamInfo(remote.content_type, None, remote.encoding, None)
    IN  IF Truthy(filename)
        THEN [first EXCEPT !.filename = filename, !.extension = Suffix(filename)]
        ELSE first

\* "except requests.RequestException as e: raise MarkItDownException(...)"
FetchFailure(uri, e) ==
    Raised("MarkItDownException", <<"Failed to fetch URI ", uri, ": ", e>>)

NetOff ==
    /\ netPc = "off"
    /\ net_uri = None
    /\ net_remote = None
    /\ net_info = None
    /\ net_outcome = None

NetInit ==
    /\ netPc = "start"
    /\ net_uri \in RemoteUris
    /\ net_remote \in Remotes
    /\ net_info = None
    /\ net_outcome = None

\* requests.get(uri, stream=True, timeout=30) raises.
GetRaises ==
    /\ netPc = "start"
    /\ net_remote.fault \in GetFaults
    /\ net_outcome' = FetchFailure(net_uri, net_remote.fault)
    /\ netPc' = "done"
    /\ UNCHANGED <<net_uri, net_remote, net_info>>
    /\ UNCHANGED notNet

\* response.raise_for_status() raises.
RaiseForStatus ==
    /\ netPc = "start"
    /\ net_remote.fault = "none"
    /\ HttpErrorStatus(net_remote.status)
    /\ net_outcome' = FetchFailure(net_uri, "HTTPError")
    /\ netPc' = "done"
    /\ UNCHANGED <<net_uri, net_remote, net_info>>
    /\ UNCHANGED notNet

\* The response arrived with a good status: the descriptor is built.
Fetched ==
    /\ netPc = "start"
    /\ net_remote.fault = "none"
    /\ ~HttpErrorStatus(net_remote.status)
    /\ net_info' = response_stream_info(net_remote)
    /\ netPc' = "fetched"
    /\ UNCHANGED <<net_uri, net_remote, net_outcome>>
    /\ UNCHANGED notNet

\* return self.convert_stream(response.raw, stream_info=stream_info)
ConvertFetched ==
    /\ netPc = "fetched"
    /\ net_outcome' = IF net_remote.body = "junk"
                      THEN Raised("UnsupportedFormatException",
                                  <<"Could not convert stream. ", net_uri>>)
                      ELSE Returned(<<"markdown of ", net_uri>>)
    /\ netPc' = "done"
    /\ UNCHANGED <<net_uri, net_remote, net_info>>
    /\ UNCHANGED notNet

NetNext == GetRaises \/ RaiseForStatus \/ Fetched \/ ConvertFetched


(***************************************************************************)
(* accepts of the built-in converters and the stream's read position.      *)
(***************************************************************************)

BuiltinNames == { Builtins[k].name : k \in 1..Len(Builtins) }

\* file_stream.read(n) at position pos.
stream_read(bytes, pos, n) ==
    SubSeq(bytes, pos + 1, IF Len(bytes) < pos + n THEN Len(bytes) ELSE pos + n)

\* The call of file_stream that raises when TextConverter.accepts makes it:
\* tell(), the seek(0), the read(8192), the seek(current_pos), or none.  A call
\* that raises leaves the read position where it was.
StreamFaults == { "none", "tell", "seek", "read", "seek_back" }

AccOff ==
    /\ accPc = "off"
    /\ acc_fault = "none"
    /\ acc_conv = None
    /\ acc_info = None
    /\ acc_bytes = << >>
    /\ acc_pos = 0
    /\ acc_pos0 = 0
    /\ acc_current = 0
    /\ acc_sample = << >>
    /\ acc_result = "none"

AccInit ==
    /\ accPc = "start"
    /\ acc_fault \in StreamFaults
    /\ acc_conv \in BuiltinNames
    /\ acc_info \in { StreamInfo(m, e, None, None) : m \in Mimes, e \in Exts }
    /\ acc_bytes \in SeqsUpTo(Bytes, MaxStreamLen)
    /\ acc_pos \in 0..Len(acc_bytes)
    /\ acc_pos0 = acc_pos
    /\ acc_current = 0
    /\ acc_sample = << >>
    /\ acc_result = "none"

\* PdfConverter, DocxConverter, ImageConverter, HtmlConverter and
\* AudioConverter: accepts looks at the descriptor only.
DescriptorOnly ==
    /\ accPc = "start"
    /\ acc_conv # "TextConverter"
    /\ acc_result' = IF DescriptorAccepts(acc_conv, acc_info) THEN "true" ELSE "false"
    /\ accPc' = "returned"
    /\ UNCHANGED <<acc_fault, acc_conv, acc_info, acc_bytes, acc_pos, acc_pos0, acc_current, acc_sample>>
    /\ UNCHANGED notAcc

\* TextConverter.accepts: the extension or the MIME type matches.
TextByDescriptor ==
    /\ accPc = "start"
    /\ acc_conv = "TextConverter"
    /\ \/ matches_extension(acc_info, Supported("TextConverter").ext)
       \/ matches_mimetype(acc_info, Supported("TextConverter").mime)
    /\ acc_result' = "true"
    /\ accPc' = "returned"
    /\ UNCHANGED <<acc_fault, acc_conv, acc_info, acc_bytes, acc_pos, acc_pos0, acc_current, acc_sample>>
    /\ UNCHANGED notAcc

\* current_pos = file_stream.tell()
TextTell ==
    /\ accPc = "start"
    /\ acc_conv = "TextConverter"
    /\ ~matches_extension(acc_info, Supported("TextConverter").ext)
    /\ ~matches_mimetype(acc_info, Supported("TextConverter").mime)
    /\ acc_fault # "tell"
    /\ acc_current' = acc_pos
    /\ accPc' = "told"
    /\ UNCHANGED <<acc_fault, acc_conv, acc_info, acc_bytes, acc_pos, acc_pos0, acc_sample, acc_result>>
    /\ UNCHANGED notAcc

\* file_stream.tell() raises: "except Exception: return False".
TextTellRaises ==
    /\ accPc = "start"
    /\ acc_conv = "TextConverter"
    /\ ~matches_extension(acc_info, Supported("TextConverter").ext)
    /\ ~matches_mimetype(acc_info, Supported("TextConverter").mime)
    /\ acc_fault = "tell"
    /\ acc_result' = "false"
    /\ accPc' = "returned"
    /\ UNCHANGED <<acc_fault, acc_conv, acc_info, acc_bytes, acc_pos, acc_pos0, acc_current, acc_sample>>
    /\ UNCHANGED notAcc

\* file_stream.seek(0)
TextSeekStart ==
    /\ accPc = "told"
    /\ acc_fault # "seek"
    /\ acc_pos' = 0
    /\ accPc' = "rewound"
    /\ UNCHANGED <<acc_fault, acc_conv, acc_info, acc_bytes, acc_pos0, acc_current, acc_sample, acc_result>>
    /\ UNCHANGED notAcc

\* file_stream.seek(0) raises: "except Exception: return False".
TextSeekStartRaises ==
    /\ accPc = "told"
    /\ acc_fault = "seek"
    /\ acc_result' = "false"
    /\ accPc' = "returned"
    /\ UNCHANGED <<acc_fault, acc_conv, acc_info, acc_bytes, acc_pos, acc_pos0, acc_current, acc_sample>>
    /\ UNCHANGED notAcc

\* sample = file_stream.read(8192)
TextRead ==
    /\ accPc = "rewound"
    /\ acc_fault # "read"
    /\ acc_sample' = stream_read(acc_bytes, acc_pos, SampleSize)
    /\ acc_pos' = acc_pos + Len(stream_read(acc_bytes, acc_pos, SampleSize))
    /\ accPc' = "read"
    /\ UNCHANGED <<acc_fault, acc_conv, acc_info, acc_bytes, acc_pos0, acc_current, acc_result>>
    /\ UNCHANGED notAcc

\* file_stream.read(8192) raises after the seek(0): "except Exception: return
\* False", and the seek(current_pos) is not reached.
TextReadRaises ==
    /\ accPc = "rewound"
    /\ acc_fault = "read"
    /\ acc_result' = "false"
    /\ accPc' = "returned"
    /\ UNCHANGED <<acc_fault, acc_conv, acc_info, acc_bytes, acc_pos, acc_pos0, acc_current, acc_sample>>
    /\ UNCHANGED notAcc

\* file_stream.seek(current_pos)
TextSeekBack ==
    /\ accPc = "read"
    /\ acc_fault # "seek_back"
    /\ acc_pos' = acc_current
    /\ accPc' = "restored"
    /\ UNCHANGED <<acc_fault, acc_conv, acc_info, acc_bytes, acc_pos0, acc_current, acc_sample, acc_result>>
    /\ UNCHANGED notAcc

\* file_stream.seek(current_pos) raises: "except Exception: return False",
\* with the stream standing after the sample.
TextSeekBackRaises ==
    /\ accPc = "read"
    /\ acc_fault = "seek_back"
    /\ acc_result' = "false"
    /\ accPc' = "returned"
    /\ UNCHANGED <<acc_fault, acc_conv, acc_info, acc_bytes, acc_pos, acc_pos0, acc_current, acc_sample>>
    /\ UNCHANGED notAcc

\* The sample is decoded with utf-8, cp949, euc-kr and latin-1 in turn.
TextDecode ==
    /\ accPc = "restored"
    /\ acc_result' = IF \E k \in 1..Len(TextDecodeChain) :
                            DecodeOK(TextDecodeChain[k], acc_sample)
                     THEN "true" ELSE "false"
    /\ accPc' = "returned"
    /\ UNCHANGED <<acc_fault, acc_conv, acc_info, acc_bytes, acc_pos, acc_pos0, acc_current, acc_sample>>
    /\ UNCHANGED notAcc

AccNext ==
    \/ DescriptorOnly
    \/ TextByDescriptor
    \/ TextTell
    \/ TextTellRaises
    \/ TextSeekStart
    \/ TextSeekStartRaises
    \/ TextRead
    \/ TextReadRaises
    \/ TextSeekBack
    \/ TextSeekBackRaises
    \/ TextDecode


(***************************************************************************)
(* PDF conversion: converters/pdf_converter.py and its construction.       *)
(***************************************************************************)

DocintelValues == { None, "", "https://docintel.example" }
DocintelKeys == { None, "", "secret" }

\* PdfConverter.__init__ and _check_dependencies.
PdfConverter(docintel_endpoint, docintel_key, pdfminer_importable) ==
    [docintel_endpoint   |-> docintel_endpoint,
     docintel_key        |-> docintel_key,
     pdfminer_available  |-> pdfminer_importable,
     azure_available     |-> Truthy(docintel_endpoint) /\ Truthy(docintel_key)]

\* MarkItDown._register_converters: PdfConverter(docintel_endpoint=
\* self.docintel_endpoint, korean_support=...); no key is passed.
engine_pdf_converter(config, pdfminer_importable) ==
    PdfConverter(config.endpoint, None, pdfminer_importable)

PdfOff ==
    /\ pdfPc = "off"
    /\ pdf_via = None
    /\ pdf_config = None
    /\ pdf_world = None
    /\ pdf_converter = None
    /\ pdf_calls = << >>
    /\ pdf_outcome = None

PdfInit ==
    /\ pdfPc = "configured"
    /\ pdf_via \in { "server", "engine", "direct" }
    /\ pdf_config \in [endpoint : DocintelValues, key : DocintelKeys]
    /\ pdf_world \in [pdfminer : BOOLEAN, service_fails : BOOLEAN, pdfminer_fails : BOOLEAN]
    /\ pdf_converter = None
    /\ pdf_calls = << >>
    /\ pdf_outcome = None

\* MarkItDownMCPServer.__init__: MarkItDown(docintel_endpoint=...), then
\* _configure_converters(docintel_key=...), which does nothing.
ConstructServer ==
    /\ pdfPc = "configured"
    /\ pdf_via = "server"
    /\ pdf_converter' = engine_pdf_converter(pdf_config, pdf_world.pdfminer)
    /\ pdfPc' = "constructed"
    /\ UNCHANGED <<pdf_via, pdf_config, pdf_world, pdf_calls, pdf_outcome>>
    /\ UNCHANGED notPdf

\* MarkItDown.__init__, which has no parameter for the key.
ConstructEngine ==
    /\ pdfPc = "configured"
    /\ pdf_via = "engine"
    /\ pdf_converter' = engine_pdf_converter(pdf_config, pdf_world.pdfminer)
    /\ pdfPc' = "constructed"
    /\ UNCHANGED <<pdf_via, pdf_config, pdf_world, pdf_calls, pdf_outcome>>
    /\ UNCHANGED notPdf

\* A caller constructs PdfConverter(docintel_endpoint, docintel_key) itself.
ConstructDirect ==
    /\ pdfPc = "configured"
    /\ pdf_via = "direct"
    /\ pdf_converter' = PdfConverter(pdf_config.endpoint, pdf_config.key, pdf_world.pdfminer)
    /\ pdfPc' = "constructed"
    /\ UNCHANGED <<pdf_via, pdf_config, pdf_world, pdf_calls, pdf_outcome>>
    /\ UNCHANGED notPdf

\* convert: azure_available, and _convert_with_azure returns.
AzureReturns ==
    /\ pdfPc = "constructed"
    /\ pdf_converter.azure_available
    /\ ~pdf_world.service_fails
    /\ pdf_calls' = Append(pdf_calls, "azure")
    /\ pdf_outcome' = Returned(<<"markdown by azure">>)
    /\ pdfPc' = "done"
    /\ UNCHANGED <<pdf_via, pdf_config, pdf_world, pdf_converter>>
    /\ UNCHANGED notPdf

\* convert: azure_available, _convert_with_azure raises; a warning is
\* logged and convert goes on.
AzureRaises ==
    /\ pdfPc = "constructed"
    /\ pdf_converter.azure_available
    /\ pdf_world.service_fails
    /\ pdf_calls' = Append(pdf_calls, "azure")
    /\ pdfPc' = "local"
    /\ UNCHANGED <<pdf_via, pdf_config, pdf_world, pdf_converter, pdf_outcome>>
    /\ UNCHANGED notPdf

\* convert: azure_available is False.
AzureSkipped ==
    /\ pdfPc = "constructed"
    /\ ~pdf_converter.azure_available
    /\ pdfPc' = "local"
    /\ UNCHANGED <<pdf_via, pdf_config, pdf_world, pdf_converter, pdf_calls, pdf_outcome>>
    /\ UNCHANGED notPdf

\* convert: return self._convert_with_pdfminer(...), which returns or
\* raises FileConversionException.
ConvertWithPdfminer ==
    /\ pdfPc = "local"
    /\ pdf_converter.pdfminer_available
    /\ pdf_calls' = Append(pdf_calls, "pdfminer")
    /\ pdf_outcome' = IF pdf_world.pdfminer_fails
                      THEN Raised("FileConversionException", <<"PDF conversion failed">>)
                      ELSE Returned(<<"markdown by pdfminer">>)
    /\ pdfPc' = "done"
    /\ UNCHANGED <<pdf_via, pdf_config, pdf_world, pdf_converter>>
    /\ UNCHANGED notPdf

\* convert: raise MissingDependencyException(...)
RaiseMissingDependency ==
    /\ pdfPc = "local"
    /\ ~pdf_converter.pdfminer_available
    /\ pdf_outcome' = Raised("MissingDependencyException",
                             <<"No PDF processing library available.">>)
    /\ pdfPc' = "done"
    /\ UNCHANGED <<pdf_via, pdf_config, pdf_world, pdf_converter, pdf_calls>>
    /\ UNCHANGED notPdf

PdfNext ==
    \/ ConstructServer
    \/ ConstructEngine
    \/ ConstructDirect
    \/ AzureReturns
    \/ AzureRaises
    \/ AzureSkipped
    \/ ConvertWithPdfminer
    \/ RaiseMissingDependency


(***************************************************************************)
(* Plugin manager: plugins/plugin_manager.py.                              *)
(***************************************************************************)

PluginNames == { "alpha", "beta" }

\* What one discovery finds: the names of the entry points and plugin
\* classes that load and instantiate, in order.  Two distributions may
\* register the same entry point name.
Discoveries == UNION { [1..n -> PluginNames] : n \in 0..MaxDiscovered }

EmptyRegistry == [name \in PluginNames |-> 0]

\* The instances one discovery creates: the k-th gets the next number.
Instances(count, found) == [k \in 1..Len(found) |-> count + k]

\* plugin_registry[name] = {...} for each plugin found, in order: the last
\* one of a name stays.
register_plugins(registry, count, found) ==
    [name \in PluginNames |->
        IF \E k \in 1..Len(found) : found[k] = name
        THEN count + (CHOOSE k \in 1..Len(found) :
                          /\ found[k] = name
                          /\ \A j \in (k + 1)..Len(found) : found[j] # name)
        ELSE registry[name]]

\* list.remove(x): the first occurrence is taken out.
ListRemove(list, x) ==
    IF \E i \in 1..Len(list) : list[i] = x
    THEN LET first == CHOOSE i \in 1..Len(list) :
                          list[i] = x /\ \A j \in 1..(i - 1) : list[j] # x
         IN  SubSeq(list, 1, first - 1) \o SubSeq(list, first + 1, Len(list))
    ELSE list

LastCall(op, name, found, returned) ==
    [op |-> op, name |-> name, found |-> found, returned |-> returned,
     registry |-> plugin_registry, loaded |-> loaded_plugins]

NoCall ==
    [op |-> "none", name |-> None, found |-> << >>, returned |-> FALSE,
     registry |-> EmptyRegistry, loaded |-> << >>]

PlgOff ==
    /\ plgPc = "off"
    /\ loaded_plugins = << >>
    /\ plugin_registry = EmptyRegistry
    /\ plg_count = 0
    /\ plg_last = NoCall

\* PluginManager.__init__
PlgInit ==
    /\ plgPc = "ready"
    /\ loaded_plugins = << >>
    /\ plugin_registry = EmptyRegistry
    /\ plg_count = 0
    /\ plg_last = NoCall

\* load_plugins: both discoveries run and register what they find, then
\* self.loaded_plugins = plugins.
LoadPlugins ==
    /\ plgPc = "ready"
    /\ \E found \in Discoveries :
          /\ plg_count + Len(found) <= MaxInstances
          /\ loaded_plugins' = Instances(plg_count, found)
          /\ plugin_registry' = register_plugins(plugin_registry, plg_count, found)
          /\ plg_count' = plg_count + Len(found)
          /\ plg_last' = LastCall("load_plugins", None, found,
                                  Instances(plg_count, found))
    /\ UNCHANGED plgPc
    /\ UNCHANGED notPlg

\* reload_plugins: both are cleared, then load_plugins.
ReloadPlugins ==
    /\ plgPc = "ready"
    /\ \E found \in Discoveries :
          /\ plg_count + Len(found) <= MaxInstances
          /\ loaded_plugins' = Instances(plg_count, found)
          /\ plugin_registry' = register_plugins(EmptyRegistry, plg_count, found)
          /\ plg_count' = plg_count + Len(found)
          /\ plg_last' = LastCall("reload_plugins", None, found,
                                  Instances(plg_count, found))
    /\ UNCHANGED plgPc
    /\ UNCHANGED notPlg

\* unload_plugin(name), name not in the registry: return False.
UnloadUnregistered ==
    /\ plgPc = "ready"
    /\ \E name \in PluginNames :
          /\ plugin_registry[name] = 0
          /\ plg_last' = LastCall("unload_plugin", name, << >>, FALSE)
    /\ UNCHANGED <<plgPc, loaded_plugins, plugin_registry, plg_count>>
    /\ UNCHANGED notPlg

\* unload_plugin(name): the entry is popped, its converter removed from
\* loaded_plugins if it is there; return True.
UnloadRegistered ==
    /\ plgPc = "ready"
    /\ \E name \in PluginNames :
          /\ plugin_registry[name] # 0
          /\ plugin_registry' = [plugin_registry EXCEPT ![name] = 0]
          /\ loaded_plugins' = ListRemove(loaded_plugins, plugin_registry[name])
          /\ plg_last' = LastCall("unload_plugin", name, << >>, TRUE)
    /\ UNCHANGED <<plgPc, plg_count>>
    /\ UNCHANGED notPlg

PlgNext == LoadPlugins \/ ReloadPlugins \/ UnloadUnregistered \/ UnloadRegistered


(***************************************************************************)
(* Options across the tool calls of one server (server.py, set_options).   *)
(***************************************************************************)

OptionTools == { "convert_file", "convert_url", "convert_batch" }

\* arguments.get("options", {}) of a call.
CallOptions ==
    { NoOptions,
      [k \in {"korean_optimization"} |-> TRUE],
      [k \in {"korean_optimization"} |-> FALSE],
      [k \in {"include_metadata"} |-> TRUE] }

\* A call: the tool, whether file_path / url / file_paths was given, and the
\* options.
ToolCalls == [tool : OptionTools, has_input : BOOLEAN, options : CallOptions]

OptOff ==
    /\ optPc = "off"
    /\ opt_options = DefaultOptions
    /\ opt_history = << >>
    /\ opt_korean = "none"

\* The server is constructed: the engine has its default options.
OptInit ==
    /\ optPc = "serving"
    /\ opt_options = DefaultOptions
    /\ opt_history = << >>
    /\ opt_korean = "none"

\* A handler: without its input it answers "... is required"; otherwise
\* self.markitdown.set_options(**options), then the conversion, which asks
\* self._options.get('korean_optimization').
HandleCall(call) ==
    /\ optPc = "serving"
    /\ Len(opt_history) < MaxCalls
    /\ opt_history' = Append(opt_history, call)
    /\ IF call.has_input
       THEN /\ opt_options' = set_options(opt_options, call.options)
            /\ opt_korean' = set_options(opt_options, call.options).korean_optimization
       ELSE /\ opt_korean' = "none"
            /\ UNCHANGED opt_options
    /\ UNCHANGED optPc
    /\ UNCHANGED notOpt

HandleConvertFile ==
    \E call \in ToolCalls : call.tool = "convert_file" /\ HandleCall(call)

HandleConvertUrl ==
    \E call \in ToolCalls : call.tool = "convert_url" /\ HandleCall(call)

HandleConvertBatch ==
    \E call \in ToolCalls : call.tool = "convert_batch" /\ HandleCall(call)

OptNext == HandleConvertFile \/ HandleConvertUrl \/ HandleConvertBatch


(***************************************************************************)
(* The `server` subcommand of the engine CLI (cli.py).                     *)
(***************************************************************************)

\* The option strings of the server subparser, as characters.
KoreanSupportFlag == << "-", "-", "k", "o", "r", "e", "a", "n", "-", "s", "u", "p", "p", "o", "r", "t" >>
LogLevelFlag == << "-", "-", "l", "o", "g", "-", "l", "e", "v", "e", "l" >>

\* The argument lists tried after `server`.
ServerArgvs ==
    { << >>,
      << KoreanSupportFlag >>,
      << << "-", "-", "k", "o", "r", "e", "a", "n" >> >>,
      << LogLevelFlag, << "D", "E", "B", "U", "G" >> >>,
      << LogLevelFlag, << >> >>,
      << KoreanSupportFlag, LogLevelFlag, << "D", "E", "B", "U", "G" >> >>,
      << << "-", "-", "l", "o", "g" >>, << "n", "o", "s", "u", "c", "h" >>, KoreanSupportFlag >>,
      << KoreanSupportFlag, KoreanSupportFlag >> }

\* argparse matches an option by any prefix that no other option shares:
\* "--k..." for --korean-support, "--l..." for --log-level.
IsPrefix(tok, flag) == Len(tok) <= Len(flag) /\ tok = SubSeq(flag, 1, Len(tok))
IsKoreanSupport(tok) == Len(tok) >= 3 /\ IsPrefix(tok, KoreanSupportFlag)
IsLogLevel(tok) == Len(tok) >= 3 /\ IsPrefix(tok, LogLevelFlag)

\* Whether argv[i] is the argument of a --log-level before it.
IsLogLevelValue(argv, i) == i > 1 /\ IsLogLevel(argv[i - 1])

\* A plausible bug: a flag that is None when absent.
parse_korean_support_optional(argv) ==
    IF \E i \in 1..Len(argv) : IsKoreanSupport(argv[i]) /\ ~IsLogLevelValue(argv, i)
    THEN PyBool(TRUE) ELSE PyNone

\* add_argument("--korean-support", action="store_true"): True if the flag
\* is given, False (the default of store_true) if it is not.
parse_korean_support(argv) ==
    PyBool(\E i \in 1..Len(argv) : IsKoreanSupport(argv[i]) /\ ~IsLogLevelValue(argv, i))

\* add_argument("--log-level"): the last value given, None if none was.
parse_log_level(argv) ==
    LET at == { i \in 1..Len(argv) : IsLogLevelValue(argv, i) }
    IN  IF at = {} THEN PyNone
        ELSE PyStr(argv[CHOOSE i \in at : \A j \in at : j <= i])

\* The namespace of the server subparser.
parse_server_args(argv) ==
    [korean_support |-> parse_korean_support(argv), log_level |-> parse_log_level(argv)]

\* server_command up to setup_logging: the configuration of the manager
\* with the command line written over it.
server_config(args, file, env) ==
    LET config == load_config(file, env).config
        korean == IF args.korean_support # PyNone
                  THEN [config EXCEPT !.converters.korean_support = args.korean_support]
                  ELSE config
    IN  IF args.log_level.py = "str" /\ args.log_level.s # << >>
        THEN [korean EXCEPT !.server.log_level = args.log_level]
        ELSE korean

\* setup_logging(level, log_file): level.upper() raises on a level that is
\* no str.
LevelRaises(config) == config.server.log_level.py # "str"
\* `if log_file:` then logging.FileHandler(log_file), which opens the file.
OpensLogFile(config) ==
    LET log_file == config.server.log_file
    IN  CASE log_file.py = "str" -> log_file.s # << >>
          [] log_file.py = "NoneType" -> FALSE
          [] log_file.py \in { "int", "float", "bool" } -> log_file.n # 0
          [] log_file.py = "list" -> log_file.l # << >>
          [] log_file.py = "dict" -> DOMAIN log_file.d # {}
          [] OTHER -> TRUE

\* The keyword arguments of the create_server call.
create_server_kwargs(config) ==
    [enable_builtins |-> config.converters.enable_builtins,
     enable_plugins |-> config.converters.enable_plugins,
     enable_korean_support |-> config.converters.korean_support,
     docintel_endpoint |-> config.azure.endpoint,
     docintel_key |-> config.azure.key,
     openai_api_key |-> config.llm.openai_api_key,
     max_workers |-> config.converters.max_workers]

NoKwargs == [k \in DOMAIN create_server_kwargs(MarkItDownConfig) |-> PyNone]

\* The configuration files and environments the subcommand is run with.
ServerConfigFiles ==
    ConfigFiles
    \cup { ObjectFile([converters |-> JObject([korean_support |-> JScalar(<< "t", "r", "u", "e" >>)])]),
           ObjectFile([converters |-> JObject([korean_support |-> JScalar(<< "f", "a", "l", "s", "e" >>)])]),
           ObjectFile([server |-> JObject([log_level |-> JScalar(<< "5" >>)])]),
           ObjectFile([server |-> JObject([log_file |-> JObject(<< >>)])]),
           ObjectFile([server |-> JObject([log_file |-> JObject([a |-> JScalar(<< "1" >>)])])]) }
ServerEnvironments ==
    Environments
    \cup { [NoEnvironment EXCEPT !["KOREAN_SUPPORT"] = PyStr(t)] :
               t \in { << "t", "r", "u", "e" >>, << "f", "a", "l", "s", "e" >>, << "T", "r", "u", "e" >> } }

ScOff ==
    /\ scPc = "off"
    /\ sc_argv = << >>
    /\ sc_file = NoFile
    /\ sc_env = NoEnvironment
    /\ sc_kwargs = NoKwargs

ScInit ==
    /\ scPc = "cli"
    /\ sc_argv \in ServerArgvs
    /\ sc_file \in ServerConfigFiles
    /\ sc_env \in ServerEnvironments
    /\ sc_kwargs = NoKwargs

\* server_command: logging is set up and create_server is called.
ServerCommand ==
    /\ scPc = "cli"
    /\ LET config == server_config(parse_server_args(sc_argv), sc_file, sc_env)
       IN  /\ ~LevelRaises(config)
           /\ sc_kwargs' = create_server_kwargs(config)
    /\ scPc' = "passed"
    /\ UNCHANGED <<sc_argv, sc_file, sc_env>>
    /\ UNCHANGED notSc

\* server_command: setup_logging raises, on a level that is no str or on a
\* log file that cannot be opened; create_server is not called.
SetupLoggingRaises ==
    /\ scPc = "cli"
    /\ LET config == server_config(parse_server_args(sc_argv), sc_file, sc_env)
       IN  LevelRaises(config) \/ OpensLogFile(config)
    /\ scPc' = "raised"
    /\ UNCHANGED <<sc_argv, sc_file, sc_env, sc_kwargs>>
    /\ UNCHANGED notSc

ScNext == ServerCommand \/ SetupLoggingRaises


(***************************************************************************)
(* Specifications and properties.                                          *)
(***************************************************************************)
vars == <<regVars, engVars, srvVars, cliVars, audVars, txtVars, duVars, anVars, detVars, nwVars, cfgVars, instVars, hcVars, ttlVars, netVars, accVars, pdfVars, plgVars, optVars, scVars>>

\* The engine is constructed; nothing is being converted.
InitRegistry == RegInit /\ EngIdle /\ SrvOff /\ CliOff /\ AudOff /\ TxtOff /\ DuOff /\ AnOff /\ DetOff /\ NwOff /\ CfgOff /\ InstOff /\ HcOff /\ TtlOff /\ NetOff /\ AccOff /\ PdfOff /\ PlgOff /\ OptOff /\ ScOff

SpecRegistry == InitRegistry /\ [][RegNext]_vars

Names(regs) == [i \in 1..Len(regs) |-> regs[i].name]

\* C1: after any sequence of register_converter calls the list is ordered by
\* non-decreasing priority, and once the six built-ins (and nothing else) are
\* registered the list reads PDF, DOCX, Image, HTML, Audio, Text.
C1_RegistrySorted ==
    /\ \A i, j \in 1..Len(converters) :
          i < j => converters[i].priority <= converters[j].priority
    /\ (/\ Len(converters) = Len(Builtins)
        /\ \A k \in 1..Len(Builtins) :
              \E i \in 1..Len(converters) : converters[i].name = Builtins[k].name) =>
          Names(converters) = << "PdfConverter", "DocxConverter", "ImageConverter",
                                 "HtmlConverter", "AudioConverter", "TextConverter" >>

\* All six built-ins registered, in the code's order, and nothing else yet.
C1_Witness ==
    /\ regPc = "plugins"
    /\ regCount = Len(Builtins)
    /\ Len(converters) = 6
    /\ converters[6].name = "TextConverter"
    /\ converters[6].id = 1

InitEngine == EngInit /\ SrvOff /\ CliOff /\ AudOff /\ TxtOff /\ DuOff /\ AnOff /\ DetOff /\ NwOff /\ CfgOff /\ InstOff /\ HcOff /\ TtlOff /\ NetOff /\ AccOff /\ PdfOff /\ PlgOff /\ OptOff /\ ScOff

SpecEngine == InitEngine /\ [][EngNext]_vars

\* The k-th pair of "for guess: for converter:", counting from 1.
PairAt(k) ==
    << ((k - 1) \div Len(converters)) + 1, ((k - 1) % Len(converters)) + 1 >>

\* C2: the attempt loop visits (guess, converter) pairs guess-major in list
\* order, calls convert only after accepts returned true for that pair, and
\* the first convert that returns ends the loop and is what is returned.
C2_AttemptOrder ==
    /\ \A k \in 1..Len(attempts) :
          /\ <<attempts[k].guess, attempts[k].conv>> = PairAt(k)
          /\ attempts[k].convert # "none" => attempts[k].accepts = "true"
          /\ attempts[k].convert = "ok" =>
                /\ k = Len(attempts)
                /\ engPc = "done"
                /\ outcome.kind = "result"
                /\ <<outcome.guess, outcome.conv>> = PairAt(k)
                /\ outcome.converter = converters[attempts[k].conv].name
    /\ outcome.kind = "result" =>
          Len(attempts) > 0 /\ attempts[Len(attempts)].convert = "ok"

\* A result returned for the second guess after an earlier pair's convert raised.
C2_Witness ==
    /\ engPc = "done"
    /\ outcome.kind = "result"
    /\ outcome.guess = 2
    /\ outcome.conv > 1
    /\ \E k \in 1..Len(attempts) : attempts[k].convert = "raise"

IsFailure(a) == a.accepts = "raise" \/ a.convert = "raise"

\* The failure entries the history calls for, in order.
RECURSIVE FailuresOf(_)
FailuresOf(hist) ==
    IF Len(hist) = 0 THEN << >>
    ELSE LET a == hist[Len(hist)]
             rest == FailuresOf(SubSeq(hist, 1, Len(hist) - 1))
         IN  IF IsFailure(a)
             THEN Append(rest,
                    FailedAttempt(converters[a.conv].name, guesses[a.guess],
                        IF a.accepts = "raise" THEN "accepts failed" ELSE "convert failed"))
             ELSE rest

\* C3: an exception of accepts or convert is recorded as one failure entry
\* and the loop goes on; UnsupportedFormat is raised exactly when no
\* combination succeeded, after all of them were tried, and its message
\* carries every guessed descriptor and every recorded failure.
C3_FailuresRecorded ==
    /\ engPc \in {"loop", "done"} => failed_attempts = FailuresOf(attempts)
    /\ engPc = "done" =>
          /\ outcome.kind \in {"result", "UnsupportedFormatException"}
          /\ outcome.kind = "UnsupportedFormatException" <=>
                (\A k \in 1..Len(attempts) : attempts[k].convert # "ok")
          /\ outcome.kind = "UnsupportedFormatException" =>
                /\ Len(attempts) = Len(guesses) * Len(converters)
                /\ outcome.message.guessed =
                      [i \in 1..Len(guesses) |-> StreamInfoStr(guesses[i])]
                /\ outcome.message.failed = FailuresOf(attempts)

\* UnsupportedFormat after two guesses, with an accepts failure and a convert
\* failure on record.
C3_Witness ==
    /\ engPc = "done"
    /\ outcome.kind = "UnsupportedFormatException"
    /\ Len(guesses) >= 2
    /\ \E i, j \in 1..Len(outcome.message.failed) :
          /\ outcome.message.failed[i].error = "accepts failed"
          /\ outcome.message.failed[j].error = "convert failed"

Registered(name) == \E i \in 1..Len(converters) : converters[i].name = name

OnlyBuiltins == converters = RegisterAll(<< >>, Builtins, 1)

\* The example of the claim: an empty stream, an unrecognized extension,
\* nothing else known.
EmptyUnrecognized ==
    /\ stream = << >>
    /\ base_info.extension = ".xyz"
    /\ base_info.mimetype = NoMime
    /\ base_info.filename = None
    /\ base_info.charset = None

\* C4 as stated: with the built-ins registered, an empty stream with an
\* unrecognized extension fails with UnsupportedFormat and the message lists
\* at least one attempted combination.
C4_Original ==
    (engPc = "done" /\ OnlyBuiltins /\ EmptyUnrecognized) =>
        /\ outcome.kind = "UnsupportedFormatException"
        /\ Len(outcome.message.failed) >= 1

\* What the code does with the example: TextConverter.accepts decodes the
\* empty sample as utf-8 and returns True, and its convert returns a result.
C4_Witness ==
    /\ engPc = "done"
    /\ OnlyBuiltins
    /\ EmptyUnrecognized
    /\ outcome.kind = "result"
    /\ outcome.converter = "TextConverter"
    /\ failed_attempts = << >>

\* The engine is constructed and idle; either the server waits for its
\* first call, or the command line starts a batch.
\* C20 as the specification states it: descriptors are equal exactly when
\* their MIME types and extensions are, so no two guesses of a conversion
\* have the same MIME type and extension.
C20_Original ==
    \A i, k \in 1..Len(guesses) :
        /\ StreamInfoEq(guesses[i], guesses[k])
               <=> (guesses[i].mimetype = guesses[k].mimetype
                       /\ guesses[i].extension = guesses[k].extension)
        /\ i # k => ~(guesses[i].mimetype = guesses[k].mimetype
                          /\ guesses[i].extension = guesses[k].extension)

\* C20: descriptors are equal exactly when their MIME types, extensions
\* and filenames are, whatever their charsets; no two guesses of a
\* conversion have the same MIME type, extension and filename, and a
\* detection that is left out has the three of a guess that is in.
C20_DistinctGuesses ==
    /\ \A i, k \in 1..Len(guesses) :
           i # k => ~(/\ guesses[i].mimetype = guesses[k].mimetype
                      /\ guesses[i].extension = guesses[k].extension
                      /\ guesses[i].filename = guesses[k].filename)
    /\ (guesses # << >> /\ Truthy(base_info.filename)) =>
           \A d \in Range(detect_from_filename(base_info.filename)) :
               \E i \in 1..Len(guesses) :
                   /\ guesses[i].mimetype = d.mimetype
                   /\ guesses[i].extension = d.extension
                   /\ guesses[i].filename = d.filename

\* The guess from the filename equals the base descriptor but for the
\* charset and is left out; the guess from the content equals it but for
\* the filename and is kept.
C20_Witness ==
    /\ base_info = StreamInfo(<<"application", "pdf">>, ".pdf", "bogus", "doc.pdf")
    /\ detect_from_filename(base_info.filename)
           = << StreamInfo(<<"application", "pdf">>, ".pdf", None, "doc.pdf") >>
    /\ guesses = << base_info, StreamInfo(<<"application", "pdf">>, ".pdf", None, None) >>

InitServer ==
    /\ converters = RegisterAll(<< >>, Builtins, 1)
    /\ regPc = "ready"
    /\ bi = Len(Builtins) + 1
    /\ regCount = Len(converters)
    /\ EngIdle
    /\ AudOff
    /\ TxtOff
    /\ DuOff /\ AnOff /\ DetOff /\ NwOff /\ CfgOff /\ InstOff /\ HcOff /\ TtlOff /\ NetOff /\ AccOff /\ PdfOff /\ PlgOff /\ OptOff /\ ScOff
    /\ \/ (SrvOff /\ cliPc = "start" /\ cli_args \in CliArgs
            /\ cli_i = 0 /\ successful = 0 /\ failed = 0 /\ cli_log = << >>)
       \/ (CliOff /\ srvPc = "idle" /\ request = NoRequest /\ reply = NoReply
            /\ engine_calls = << >> /\ options_at_call = DefaultOptions
            /\ batch_i = 0 /\ results = << >> /\ errors = << >>)

SpecServer == InitServer /\ [][SrvNext \/ CliNext]_vars

\* The request leaves out the input its tool requires.
MissingInput(req) ==
    \/ req.name \in {"convert_file", "analyze_document"} /\ Falsy(req.arguments.file_path)
    \/ req.name = "convert_url" /\ Falsy(req.arguments.url)
    \/ req.name = "convert_batch" /\ req.arguments.file_paths = << >>

\* What the engine does with the input of a path or URL tool.
EngineOutcome(req) ==
    CASE req.name = "convert_file" -> convert_local(req.arguments.file_path)
      [] req.name = "convert_url" -> convert_uri(req.arguments.url)
      [] req.name = "analyze_document" -> analyze_structure(req.arguments.file_path)

PathTools == {"convert_file", "convert_url", "analyze_document"}

\* The input of a path or URL tool, as the request gave it.
InputOf(req) ==
    IF req.name = "convert_url" THEN req.arguments.url ELSE req.arguments.file_path

\* The requested operation fails as a whole.
WholeFails(req) ==
    \/ req.name \notin ToolNames
    \/ MissingInput(req)
    \/ /\ req.name \in {"convert_file", "convert_url", "convert_batch"}
       /\ req.arguments.options.given = "null"
    \/ /\ req.name \in PathTools
       /\ ~MissingInput(req)
       /\ EngineOutcome(req).kind # "ok"

\* call_tool has returned or raised for the request.
Answered == srvPc = "idle" /\ request # NoRequest

\* C5: every call of call_tool returns a tool result and propagates no
\* exception, and when the operation as a whole fails (missing input,
\* not-found path, unsupported format, conversion error, unknown tool, any
\* unexpected exception) the result is one text block with the error flag set.
C5_AlwaysAResult ==
    Answered =>
        /\ reply.kind = "result"
        /\ WholeFails(request) => reply.isError /\ Len(reply.content) = 1

\* convert_file on a file that exists but cannot be opened: the
\* PermissionError is no handler's case and comes back as the generic error.
C5_Witness ==
    /\ Answered
    /\ request.name = "convert_file"
    /\ request.arguments.file_path = "locked.txt"
    /\ reply.isError
    /\ reply.content = << <<"Error: ", "[Errno 13] Permission denied: ", "locked.txt">> >>

\* A path or URL tool got its input and usable options and entered the engine.
EngineEntered(req) ==
    /\ req.name \in PathTools
    /\ ~MissingInput(req)
    /\ req.name = "analyze_document" \/ req.arguments.options.given # "null"

\* C6 as stated: for convert_file, convert_url and analyze_document alike a
\* path that does not exist gives "File not found: <path>", UnsupportedFormat
\* gives "Unsupported format: <msg>", any other engine failure gives
\* "Conversion error: <msg>", and an unknown tool gives "Unknown tool: <name>".
C6_Original ==
    Answered =>
        /\ EngineEntered(request) =>
             LET e == EngineOutcome(request)
             IN  /\ e.kind = "FileNotFoundError" =>
                        reply.content = << <<"File not found: ", InputOf(request)>> >>
                 /\ e.kind = "UnsupportedFormatException" =>
                        reply.content = << <<"Unsupported format: ">> \o e.msg >>
                 /\ e.kind \notin {"ok", "FileNotFoundError", "UnsupportedFormatException"} =>
                        reply.content = << <<"Conversion error: ">> \o e.msg >>
        /\ request.name \notin ToolNames =>
             reply.content = << <<"Unknown tool: ", request.name>> >>

\* C6 amended: the texts differ by tool.  convert_file: "File not found:
\* <path>", "Unsupported format: <msg>", "Conversion error: <msg>" for any
\* other MarkItDownException, and call_tool's "Error: <msg>" for anything
\* else.  convert_url has no not-found case of its own: UnsupportedFormat and
\* other MarkItDownExceptions as for convert_file, everything else, a path
\* that does not exist included, "Error: <msg>" (so "Error: File not found:
\* <path>").  analyze_document: "File not found: <path>", and "Analysis
\* error: <msg>" for every other failure.  An unknown tool: "Unknown tool:
\* <name>".  All of them carry the error flag.
C6_ErrorTexts ==
    Answered =>
        /\ (EngineEntered(request) /\ EngineOutcome(request).kind # "ok") =>
             LET e == EngineOutcome(request)
                 text == reply.content[1]
             IN  /\ reply.isError
                 /\ Len(reply.content) = 1
                 /\ request.name = "convert_file" =>
                        text = CASE e.kind = "FileNotFoundError" ->
                                        <<"File not found: ", InputOf(request)>>
                                 [] e.kind = "UnsupportedFormatException" ->
                                        <<"Unsupported format: ">> \o e.msg
                                 [] e.kind = "MarkItDownException" ->
                                        <<"Conversion error: ">> \o e.msg
                                 [] OTHER -> <<"Error: ">> \o e.msg
                 /\ request.name = "convert_url" =>
                        text = CASE e.kind = "UnsupportedFormatException" ->
                                        <<"Unsupported format: ">> \o e.msg
                                 [] e.kind = "MarkItDownException" ->
                                        <<"Conversion error: ">> \o e.msg
                                 [] OTHER -> <<"Error: ">> \o e.msg
                 /\ request.name = "analyze_document" =>
                        text = CASE e.kind = "FileNotFoundError" ->
                                        <<"File not found: ", InputOf(request)>>
                                 [] OTHER -> <<"Analysis error: ">> \o e.msg
        /\ request.name \notin ToolNames =>
             reply = ErrorResult(<<"Unknown tool: ", request.name>>)

\* convert_url given a path that does not exist: the generic error text.
C6_Witness ==
    /\ Answered
    /\ request.name = "convert_url"
    /\ request.arguments.url = "gone.txt"
    /\ reply = ErrorResult(<<"Error: ", "File not found: ", "gone.txt">>)

\* C7: a call that omits its required input (file_path, url, file_paths)
\* returns an error result, invokes no engine operation and leaves the
\* engine's option map as it was.
C7_MissingInputTouchesNothing ==
    (Answered /\ MissingInput(request)) =>
        /\ reply.kind = "result" /\ reply.isError
        /\ engine_calls = << >>
        /\ options = options_at_call

\* convert_file without file_path but with options, after an earlier call
\* had changed the option map: the options sent are not applied.
C7_Witness ==
    /\ Answered
    /\ request.name = "convert_file"
    /\ request.arguments.file_path = Absent
    /\ request.arguments.options.given = "map"
    /\ "include_metadata" \in DOMAIN request.arguments.options.map
    /\ "verbose" \in DOMAIN options
    /\ options["include_metadata"] = FALSE
    /\ reply = ErrorResult(<<"file_path is required">>)

\* The paths convert_local was called with during the call, in order.
Processed(calls) ==
    LET c == SelectSeq(calls, LAMBDA x : x[1] = "convert_local")
    IN  [i \in 1..Len(c) |-> c[i][2]]

\* The number of items of a batch that fail on their own account.
Failing(paths, output_dir) ==
    Cardinality({ i \in 1..Len(paths) : ~ItemOutcome(paths[i], output_dir).ok })

\* C8: in both batch operations, once the loop is entered every input path
\* is processed exactly once, in input order, one at a time; an item's
\* failure (converting or writing) is recorded for that item only and the
\* later items are still processed; the summary has succeeded + failed =
\* number of inputs.
C8_BatchIsolation ==
    /\ srvPc = "batch" =>
          /\ batch_i \in 1..(Len(request.arguments.file_paths) + 1)
          /\ Processed(engine_calls) = SubSeq(request.arguments.file_paths, 1, batch_i - 1)
          /\ Len(results) + Len(errors) = batch_i - 1
          /\ Len(errors) = Failing(Processed(engine_calls), request.arguments.output_dir)
    /\ (Answered /\ request.name = "convert_batch" /\ ~reply.isError) =>
          /\ Processed(engine_calls) = request.arguments.file_paths
          /\ reply.summary[1] = Len(request.arguments.file_paths)
          /\ reply.summary[2] + reply.summary[3] = reply.summary[1]
          /\ reply.summary[3] = Failing(request.arguments.file_paths,
                                        request.arguments.output_dir)
    /\ cliPc = "loop" =>
          /\ cli_i \in 1..(Len(cli_args.files) + 1)
          /\ cli_log = SubSeq(cli_args.files, 1, cli_i - 1)
          /\ successful + failed = cli_i - 1
          /\ failed = Failing(cli_log, cli_args.output_dir)
    /\ cliPc = "done" =>
          /\ cli_log = cli_args.files
          /\ successful + failed = Len(cli_args.files)
          /\ failed = Failing(cli_args.files, cli_args.output_dir)

\* A server batch whose first item failed and whose second item succeeded.
C8_Witness ==
    /\ Answered
    /\ request.name = "convert_batch"
    /\ request.arguments.file_paths = <<"gone.txt", "good.txt">>
    /\ reply.summary = <<2, 1, 1>>

InitAudio ==
    /\ converters = RegisterAll(<< >>, Builtins, 1)
    /\ regPc = "ready"
    /\ bi = Len(Builtins) + 1
    /\ regCount = Len(converters)
    /\ EngIdle /\ SrvOff /\ CliOff /\ AudInit /\ TxtOff /\ DuOff /\ AnOff /\ DetOff /\ NwOff /\ CfgOff /\ InstOff /\ HcOff /\ TtlOff /\ NetOff /\ AccOff /\ PdfOff /\ PlgOff /\ OptOff /\ ScOff

SpecAudio == InitAudio /\ [][AudNext]_vars

\* C9 as stated: on every exit path of convert that created the temporary
\* input file, the temporary file and the re-encoded copy, if one was
\* produced, are gone when convert returns or raises.
C9_Original ==
    (auPc = "done" /\ tmp_created) =>
        /\ "tmp" \notin files
        /\ wav_produced => "wav" \notin files

\* convert raised FileConversionException because copying the stream into
\* the temporary file failed, and the temporary file is still on disk.
C9_Witness ==
    /\ auPc = "done"
    /\ tmp_created
    /\ au_outcome = "FileConversionException"
    /\ pending = "none"
    /\ files = {"tmp"}

InitText ==
    /\ converters = RegisterAll(<< >>, Builtins, 1)
    /\ regPc = "ready"
    /\ bi = Len(Builtins) + 1
    /\ regCount = Len(converters)
    /\ EngIdle /\ SrvOff /\ CliOff /\ AudOff /\ TxtInit /\ DuOff /\ AnOff /\ DetOff /\ NwOff /\ CfgOff /\ InstOff /\ HcOff /\ TtlOff /\ NetOff /\ AccOff /\ PdfOff /\ PlgOff /\ OptOff /\ ScOff

SpecText == InitText /\ [][TxtNext]_vars

\* C10 as stated: "# Test Document\n\nThis is a test." converts to Markdown
\* equal to the input with the title "Test Document", and any text that
\* matches a Markdown probe is passed through unchanged as the Markdown.
C10_Original ==
    txtPc = "done" =>
        /\ text_stream = TestDocument =>
              /\ text_result.kind = "result"
              /\ text_result.markdown = TestDocument
              /\ text_result.title = << "T", "e", "s", "t", " ", "D", "o", "c", "u", "m", "e", "n", "t" >>
        /\ looks_like_markdown(normalize_whitespace(text_stream)) =>
              text_result.markdown = normalize_whitespace(text_stream)

\* What the code returns for the test document with Korean support on (the
\* default): the title is right, the Markdown is the heading "# Test
\* Document", a literal backslash-n backslash-n, and the text with its blank
\* line collapsed to one space.
C10_Witness ==
    /\ txtPc = "done"
    /\ text_stream = TestDocument
    /\ korean_support
    /\ text_result.kind = "result"
    /\ text_result.title = << "T", "e", "s", "t", " ", "D", "o", "c", "u", "m", "e", "n", "t" >>
    /\ text_result.markdown =
          << "#", " ", "T", "e", "s", "t", " ", "D", "o", "c", "u", "m", "e", "n", "t",
             "\\", "n", "\\", "n",
             "#", " ", "T", "e", "s", "t", " ", "D", "o", "c", "u", "m", "e", "n", "t",
             " ", "T", "h", "i", "s", " ", "i", "s", " ", "a", " ", "t", "e", "s", "t", "." >>

InitDataUri ==
    /\ converters \in EngineRegistries
    /\ regPc = "ready"
    /\ bi = Len(Builtins) + 1
    /\ regCount = Len(converters)
    /\ EngIdle /\ SrvOff /\ CliOff /\ AudOff /\ TxtOff /\ DuInit /\ AnOff /\ DetOff /\ NwOff /\ CfgOff /\ InstOff /\ HcOff /\ TtlOff /\ NetOff /\ AccOff /\ PdfOff /\ PlgOff /\ OptOff /\ ScOff

SpecDataUri == InitDataUri /\ [][DuNext \/ EngNext]_vars

\* The header of a URI that has a comma, and whether one of its parameters
\* is the flag "base64".
HeaderOf(uri) ==
    SubSeq(uri, Len(DataScheme) + 1, Len(DataScheme) + Find(SubSeq(uri, Len(DataScheme) + 1, Len(uri)), ",") - 1)
HasBase64Flag(uri) ==
    LET parts == split(HeaderOf(uri), ";")
    IN  \E k \in 2..Len(parts) : parts[k] = Base64Word

\* The payload decoded the way the flag says.
DecodedPayload(uri) ==
    LET data == parse_data_uri(uri)[1].data
    IN  IF HasBase64Flag(uri) THEN b64decode(data) ELSE unquote(data)

\* C11 as stated: convert_uri on a data: URI decodes the payload with base64
\* when the header carries the ;base64 flag and with percent-decoding
\* otherwise, converts it as a stream whose descriptor carries only the media
\* type, and for a text/plain payload succeeds with Markdown that contains
\* the decoded text.  (Built-in converters; a URI with a comma whose payload
\* the decoder named by the flag can decode.)
C11_Original ==
    (/\ duPc = "done" /\ OnlyBuiltins
     /\ parse_data_uri(du_uri) # << >>
     /\ DecodedPayload(du_uri) # BadPadding) =>
        /\ du_decoder = (IF HasBase64Flag(du_uri) THEN "base64" ELSE "percent")
        /\ engPc = "done" => /\ stream = DecodedPayload(du_uri)
                             /\ base_info = StreamInfo(MimeOf(du_parsed.media_type),
                                                       None, None, None)
        /\ du_parsed.media_type = TextPlain =>
              /\ du_result.kind = "result"
              /\ Contains(du_result.markdown, DecodeText(DecodedPayload(du_uri)))

\* The failing case: a header whose parameter merely contains the letters
\* base64, with a percent-encoded payload; the payload went to the base64
\* decoder and the call ended in binascii.Error.
C11_Witness ==
    /\ duPc = "done" /\ OnlyBuiltins
    /\ du_uri = << "d", "a", "t", "a", ":", "t", "e", "x", "t", "/", "p", "l", "a", "i", "n", ";", "n", "a", "m", "e", "=", "b", "a", "s", "e", "6", "4", ".", "t", "x", "t", ",", "H", "e", "l", "l", "o" >>
    /\ ~HasBase64Flag(du_uri)
    /\ du_decoder = "base64"
    /\ du_result.kind = "binascii.Error"

InitAnalysis ==
    /\ converters = RegisterAll(<< >>, Builtins, 1)
    /\ regPc = "ready"
    /\ bi = Len(Builtins) + 1
    /\ regCount = Len(converters)
    /\ EngIdle /\ SrvOff /\ CliOff /\ AudOff /\ TxtOff /\ DuOff /\ AnInit /\ DetOff /\ NwOff /\ CfgOff /\ InstOff /\ HcOff /\ TtlOff /\ NetOff /\ AccOff /\ PdfOff /\ PlgOff /\ OptOff /\ ScOff

SpecAnalysis == InitAnalysis /\ [][AnNext]_vars

\* The ATX heading lines of a Markdown text as the claim reads them: at a
\* line start, one to six "#" followed by whitespace and text; the level is
\* the number of "#" and the line is counted from 1.
AtxHeadingAt(s, i) ==
    /\ LineStart(s, i)
    /\ RunLength(s, i, "#") \in 1..MaxHeadingLevel
    /\ At(s, i + RunLength(s, i, "#")) \in {" ", "\t"}
    /\ strip(SubSeq(s, i + RunLength(s, i, "#"), LineEnd(s, i))) # << >>
AtxHeadings(s) ==
    { [level |-> RunLength(s, i, "#"),
       line |-> Cardinality({ k \in 1..(i - 1) : s[k] = "\n" }) + 1] :
          i \in { j \in 1..Len(s) : AtxHeadingAt(s, j) } }

\* C12 as stated: analyze_structure returns a report whose headings are the
\* ATX heading lines of the Markdown, each with its level and 1-based line
\* number (with its images and tables beside them); for the document with six
\* headings, three images and one table the report has 6 headings.
C12_Original ==
    anPc = "done" =>
        /\ an_result.kind = "report"
        /\ { [level |-> an_result.headings[k].level, line |-> an_result.headings[k].line] :
                 k \in 1..Len(an_result.headings) } = AtxHeadings(an_markdown)
        /\ an_markdown = SixHeadingsDocument => Len(an_result.headings) = 6

\* The failing case: for the document of the claim _extract_headings found
\* no heading at all and analyze_structure ended in re.error.
C12_Witness ==
    /\ anPc = "done"
    /\ an_markdown = SixHeadingsDocument
    /\ Cardinality(AtxHeadings(an_markdown)) = 6
    /\ an_headings = << >>
    /\ an_result.kind = "re.error"

InitDetector ==
    /\ converters = RegisterAll(<< >>, Builtins, 1)
    /\ regPc = "ready"
    /\ bi = Len(Builtins) + 1
    /\ regCount = Len(converters)
    /\ EngIdle /\ SrvOff /\ CliOff /\ AudOff /\ TxtOff /\ DuOff /\ AnOff /\ DetInit /\ NwOff /\ CfgOff /\ InstOff /\ HcOff /\ TtlOff /\ NetOff /\ AccOff /\ PdfOff /\ PlgOff /\ OptOff /\ ScOff

SpecDetector == InitDetector /\ [][DetNext]_vars

\* C13 as stated: for every extension e of the table, detect_from_extension(e)
\* carries the table's MIME type for e, and detect_from_mimetype of that MIME
\* type carries the extension e again.
C13_Original ==
    (detPc = "done" /\ det_ext \in TableExtensions) =>
        /\ det_forward # << >>
        /\ det_forward[1].mimetype = extension_mapping_get(det_ext)
        /\ det_back # << >>
        /\ det_back[1].extension = det_ext

\* The extensions whose MIME type a later key of the table also has, and the
\* key that takes their place in the reverse mapping.
Shadowed ==
    [e \in {".jpg", ".html", ".hwp"} |->
        CASE e = ".jpg" -> ".jpeg" [] e = ".html" -> ".htm" [] e = ".hwp" -> ".hwpx"]

\* C13, corrected: detect_from_extension(e) carries the extension e and the
\* table's MIME type, and detect_from_mimetype of that MIME type carries the
\* same MIME type and the extension e again, except for .jpg, .html and .hwp,
\* for which it carries .jpeg, .htm and .hwpx.
C13_RoundTrip ==
    (detPc = "done" /\ det_ext \in TableExtensions) =>
        /\ det_forward # << >>
        /\ det_forward[1].extension = det_ext
        /\ det_forward[1].mimetype = extension_mapping_get(det_ext)
        /\ det_back # << >>
        /\ det_back[1].mimetype = det_forward[1].mimetype
        /\ det_back[1].extension =
              (IF det_ext \in DOMAIN Shadowed THEN Shadowed[det_ext] ELSE det_ext)

\* The round trip of .jpg has run and came back as .jpeg.
C13_Witness ==
    /\ detPc = "done"
    /\ det_ext = ".jpg"
    /\ det_forward[1].mimetype = <<"image", "jpeg">>
    /\ det_back[1].extension = ".jpeg"

InitWhitespace ==
    /\ converters = RegisterAll(<< >>, Builtins, 1)
    /\ regPc = "ready"
    /\ bi = Len(Builtins) + 1
    /\ regCount = Len(converters)
    /\ EngIdle /\ SrvOff /\ CliOff /\ AudOff /\ TxtOff /\ DuOff /\ AnOff /\ DetOff /\ NwInit /\ CfgOff /\ InstOff /\ HcOff /\ TtlOff /\ NetOff /\ AccOff /\ PdfOff /\ PlgOff /\ OptOff /\ ScOff

SpecWhitespace == InitWhitespace /\ [][NwNext]_vars

\* C14: normalize_whitespace applied to its own output changes nothing, and
\* its output has no three newlines in a row and neither starts nor ends
\* with whitespace.
C14_Idempotent ==
    /\ nwPc \in {"once", "done"} =>
          /\ \A i \in 1..(Len(nw_once) - 2) :
                 ~(nw_once[i] = "\n" /\ nw_once[i + 1] = "\n" /\ nw_once[i + 2] = "\n")
          /\ nw_once # << >> => ~IsSpace(nw_once[1]) /\ ~IsSpace(nw_once[Len(nw_once)])
    /\ nwPc = "done" => nw_twice = nw_once

\* A text with three newlines in a row went through twice.
C14_Witness ==
    /\ nwPc = "done"
    /\ nw_text = << "a", "\n", "\n", "\n", "a" >>
    /\ nw_once = << "a", "\n", "\n", "a" >>
    /\ nw_twice = nw_once


InitConfig ==
    /\ converters = RegisterAll(<< >>, Builtins, 1)
    /\ regPc = "ready"
    /\ bi = Len(Builtins) + 1
    /\ regCount = Len(converters)
    /\ EngIdle /\ SrvOff /\ CliOff /\ AudOff /\ TxtOff /\ DuOff /\ AnOff /\ DetOff /\ NwOff
    /\ CfgInit /\ InstOff /\ HcOff /\ TtlOff /\ NetOff /\ AccOff /\ PdfOff /\ PlgOff /\ OptOff /\ ScOff

SpecConfig == InitConfig /\ [][CfgNext]_vars

\* C15: with no override variable set, a configuration saved to a file and
\* read back by a new ConfigManager is equal to the saved one, field for
\* field in each of the seven sections.
C15_RoundTrip ==
    (cfgPc = "reloaded" /\ cfg_env = NoEnvironment) =>
        /\ DOMAIN cfg_loaded = Sections
        /\ \A sec \in Sections :
               /\ DOMAIN cfg_loaded[sec] = DOMAIN cfg_config[sec]
               /\ \A f \in DOMAIN cfg_config[sec] : cfg_loaded[sec][f] = cfg_config[sec][f]

\* Every field of every section differs from its default, and came back.
C15_Witness ==
    /\ cfgPc = "reloaded"
    /\ cfg_env = NoEnvironment
    /\ \A sec \in Sections : \A f \in DOMAIN MarkItDownConfig[sec] :
           cfg_config[sec][f] # MarkItDownConfig[sec][f]
    /\ cfg_loaded = cfg_config
    /\ cfg_loaded.server.log_file = PyStr(<< "a", "\"", "b" >>)

\* The configuration the file gives: its own if it loads, else the defaults.
FileConfig(file) ==
    IF file.exists /\ file.doc.j # "invalid" /\ ~dict_to_config(json_load(file.doc)).raised
    THEN dict_to_config(json_load(file.doc)).config
    ELSE MarkItDownConfig

\* C17: constructing a ConfigManager never fails and leaves every field of
\* the seven sections populated; a file that cannot be loaded is a warning
\* and the defaults, and an environment value that is no number for a
\* numeric field is a warning and the field keeps the value it had.
C17_AlwaysConstructed ==
    cfgPc \in { "loaded", "reloaded", "validated" } =>
        /\ ~load_config(cfg_file, cfg_env).raised
        /\ DOMAIN cfg_loaded = Sections
        /\ \A sec \in Sections : DOMAIN cfg_loaded[sec] = DOMAIN MarkItDownConfig[sec]
        /\ (cfg_file.exists /\ FileConfig(cfg_file) = MarkItDownConfig
                /\ (cfg_file.doc.j = "invalid" \/ dict_to_config(json_load(cfg_file.doc)).raised)) =>
               /\ << "Failed to load config", "file" >> \in Range(cfg_warnings)
               /\ cfg_env = NoEnvironment => cfg_loaded = MarkItDownConfig
        /\ \A i \in 1..Len(env_mappings) :
               LET var == env_mappings[i][1]
                   prior == FileConfig(cfg_file)[env_mappings[i][2]][env_mappings[i][3]]
                   now == cfg_loaded[env_mappings[i][2]][env_mappings[i][3]]
               IN  /\ (cfg_env[var] # PyNone /\ prior.py = "int" /\ ~int_accepts(cfg_env[var].s)) =>
                          now = prior /\ << "Invalid integer value", var >> \in Range(cfg_warnings)
                   /\ (cfg_env[var] # PyNone /\ prior.py = "float" /\ ~float_accepts(cfg_env[var].s)) =>
                          now = prior /\ << "Invalid float value", var >> \in Range(cfg_warnings)

\* A file that is not JSON and a worker count that is no integer.
C17_Witness ==
    /\ cfgPc = "loaded"
    /\ cfg_file = FileOf(JInvalid)
    /\ cfg_env = [NoEnvironment EXCEPT !["MAX_WORKERS"] = PyStr(<< "a", "b", "c" >>)]
    /\ cfg_loaded = MarkItDownConfig
    /\ cfg_warnings = << << "Failed to load config", "file" >>,
                         << "Invalid integer value", "MAX_WORKERS" >> >>

\* C18 as the specification states it: `config validate` on a file that is
\* not JSON, or that has a section with an unknown field, prints an error
\* and exits with status 1, and prints "Configuration is valid" only when
\* the file loaded without error.
C18_Original ==
    cfgPc = "validated" =>
        /\ (cfg_file.exists /\ FileFails(cfg_file)) =>
               cfg_exit = 1 /\ cfg_printed[1] = "stderr"
        /\ cfg_printed = << "stdout", "Configuration is valid" >> =>
               ~(cfg_file.exists /\ FileFails(cfg_file))

\* The file is not JSON; the command reports a valid configuration.
C18_Witness ==
    /\ cfgPc = "validated"
    /\ cfg_file = FileOf(JInvalid)
    /\ cfg_warnings = << << "Failed to load config", "file" >> >>
    /\ cfg_printed = << "stdout", "Configuration is valid" >>
    /\ cfg_exit = 0

InitInstaller ==
    /\ converters = RegisterAll(<< >>, Builtins, 1)
    /\ regPc = "ready"
    /\ bi = Len(Builtins) + 1
    /\ regCount = Len(converters)
    /\ EngIdle /\ SrvOff /\ CliOff /\ AudOff /\ TxtOff /\ DuOff /\ AnOff /\ DetOff /\ NwOff
    /\ CfgOff /\ InstInit /\ HcOff /\ TtlOff /\ NetOff /\ AccOff /\ PdfOff /\ PlgOff /\ OptOff /\ ScOff

SpecInstaller == InitInstaller /\ [][InstNext]_vars

\* The members of the object a host file holds, or none; the value a key
\* has among members (its last); the servers under "mcpServers".
MembersOf(file) ==
    IF file.exists /\ file.doc.j = "ordered" THEN file.doc.items ELSE << >>
Times(pairs, key) == Cardinality({ i \in 1..Len(pairs) : pairs[i][1] = key })
ValueOf(pairs, key) ==
    pairs[CHOOSE i \in 1..Len(pairs) :
              pairs[i][1] = key /\ \A k \in (i + 1)..Len(pairs) : pairs[k][1] # key][2]
ServersOf(file) ==
    IF "mcpServers" \in Keys(MembersOf(file))
       /\ ValueOf(MembersOf(file), "mcpServers").j = "ordered"
    THEN ValueOf(MembersOf(file), "mcpServers").items
    ELSE << >>

\* C16: after two runs of setup_claude_desktop the host file is what the
\* first run left and the voidlight-markitdown entry is the one the first
\* run wrote; if the runs wrote the file, every other server and every
\* other top-level key of the original file is there exactly once with its
\* value, and if they did not, the file is the original.
C16_Idempotent ==
    Len(inst_files) = 2 =>
        /\ inst_files[2] = inst_files[1]
        /\ inst_returned[2] = inst_returned[1]
        /\ inst_returned[1] # "True" => inst_files[2] = inst_original
        /\ inst_returned[1] = "True" =>
               /\ Times(MembersOf(inst_files[2]), "mcpServers") = 1
               /\ Times(ServersOf(inst_files[2]), "voidlight-markitdown") = 1
               /\ ValueOf(ServersOf(inst_files[2]), "voidlight-markitdown")
                      = host_dump(VoidlightEntry)
               /\ \A key \in Keys(MembersOf(inst_original)) \ { "mcpServers" } :
                      /\ Times(MembersOf(inst_files[2]), key) = 1
                      /\ ValueOf(MembersOf(inst_files[2]), key)
                             = ValueOf(MembersOf(inst_original), key)
               /\ \A name \in Keys(ServersOf(inst_original)) \ { "voidlight-markitdown" } :
                      /\ Times(ServersOf(inst_files[2]), name) = 1
                      /\ ValueOf(ServersOf(inst_files[2]), name)
                             = ValueOf(ServersOf(inst_original), name)

\* A file with another key, another server and a stale entry of its own,
\* set up twice.
C16_Witness ==
    /\ Len(inst_files) = 2
    /\ inst_returned = << "True", "True" >>
    /\ inst_original =
           FileOf(JOrdered(<< Theme,
                              << "mcpServers",
                                 JOrdered(<< << "filesystem", JScalar(<< "n", "u", "l", "l" >>) >>,
                                             << "voidlight-markitdown", JScalar(<< "n", "u", "l", "l" >>) >> >>) >> >>))
    /\ inst_files[2] =
           FileOf(JOrdered(<< Theme,
                              << "mcpServers",
                                 JOrdered(<< << "filesystem", JScalar(<< "n", "u", "l", "l" >>) >>,
                                             << "voidlight-markitdown",
                                                host_dump(VoidlightEntry) >> >>) >> >>))

InitHealth ==
    /\ converters = RegisterAll(<< >>, Builtins, 1)
    /\ regPc = "ready"
    /\ bi = Len(Builtins) + 1
    /\ regCount = Len(converters)
    /\ EngIdle /\ SrvOff /\ CliOff /\ AudOff /\ TxtOff /\ DuOff /\ AnOff /\ DetOff /\ NwOff
    /\ CfgOff /\ InstOff /\ HcInit /\ TtlOff /\ NetOff /\ AccOff /\ PdfOff /\ PlgOff /\ OptOff /\ ScOff

SpecHealth == InitHealth /\ [][HcNext]_vars

\* C19 as the specification states it: the ten checks run in their order
\* whatever the earlier ones did, a check that raises counts as failed, the
\* summary is printed, and the exit status is 0 exactly when all ten
\* checks counted as passed.
C19_Original ==
    /\ hc_ran = SubSeq(checks, 1, Len(hc_ran))
    /\ \A i \in hc_raised : ~hc_results[i]
    /\ hcPc = "exited" =>
          /\ hc_ran = checks
          /\ hc_summary # "none"
          /\ hc_exit = "0" <=> \A i \in 1..Len(checks) : hc_results[i]

\* Every check passed and the summary said so; the input ended at the
\* prompt and the status is 1.
C19_Witness ==
    /\ hcPc = "exited"
    /\ hc_ran = checks
    /\ hc_raised = {}
    /\ \A i \in 1..Len(checks) : hc_results[i]
    /\ hc_summary = "all passed"
    /\ hc_response = << "E", "O", "F", "E", "r", "r", "o", "r" >>
    /\ hc_exit = "1"

InitTitle ==
    /\ converters = RegisterAll(<< >>, Builtins, 1)
    /\ regPc = "ready"
    /\ bi = Len(Builtins) + 1
    /\ regCount = Len(converters)
    /\ EngIdle /\ SrvOff /\ CliOff /\ AudOff /\ TxtOff /\ DuOff /\ AnOff /\ DetOff /\ NwOff
    /\ CfgOff /\ InstOff /\ HcOff /\ TtlInit /\ NetOff /\ AccOff /\ PdfOff /\ PlgOff /\ OptOff /\ ScOff

SpecTitle == InitTitle /\ [][TtlNext]_vars

Ellipsis == << ".", ".", "." >>

\* C21 as the specification states it: a title has at most 100 characters,
\* and a candidate of more than 100 characters comes out as its first 97
\* characters and "...".
C21_Original ==
    (ttlPc \in { "converted", "optimized" } /\ ttl_candidate # None1) =>
        /\ Len(ttl_title) <= 100
        /\ Len(ttl_candidate) > 100 => ttl_title = SubSeq(ttl_candidate, 1, 97) \o Ellipsis

\* The text _format_title decides on: the candidate stripped and, with
\* Korean support, normalized.
CleanedTitle(flag, candidate) ==
    IF flag THEN normalize_korean_text(TRUE, strip(candidate)) ELSE strip(candidate)

\* C21: a result has no title or one of at most 100 characters, before and
\* after the engine's Korean post-processing.  The candidate is stripped
\* and, with Korean support, normalized (the whitespace runs the spacing
\* pattern matches, left to right without overlap, become one space, and
\* the twelve punctuation marks of the table become their ASCII marks); a
\* cleaned text of more than 100 characters comes out as its first 97
\* characters and "...", a shorter one as it is.  So a title never begins
\* or ends with whitespace and, with Korean support, holds none of the
\* twelve marks.
C21_TitleBound ==
    (ttlPc \in { "converted", "optimized" } /\ ttl_candidate # None1) =>
        LET cleaned == CleanedTitle(ttl_korean, ttl_candidate)
        IN  /\ Len(ttl_title) <= 100
            /\ Len(cleaned) > 100 =>
                   /\ Len(ttl_title) = 100
                   /\ SubSeq(ttl_title, 1, 97) = SubSeq(cleaned, 1, 97)
                   /\ SubSeq(ttl_title, 98, 100) = Ellipsis
            /\ Len(cleaned) <= 100 => ttl_title = cleaned
            /\ ttl_title # << >> => ~IsSpace(ttl_title[1]) /\ ~IsSpace(ttl_title[Len(ttl_title)])
            /\ ttl_korean => \A i \in 1..Len(ttl_title) : ttl_title[i] \notin DOMAIN korean_punctuation
            /\ ~ttl_korean => \A i \in 1..Len(ttl_title) :
                                  i <= 97 => ttl_title[i] = strip(ttl_candidate)[i]

\* Korean support on, a candidate of 101 characters: the full-width comma
\* in front became a comma, the first double space one space, the second
\* double space, which follows the letter that closed the first match, is
\* as it was; the 100 characters left are the title, uncut.
C21_Witness ==
    /\ ttlPc = "optimized"
    /\ ttl_korean
    /\ ttl_candidate = << "U+FF0C" >> \o Pad(FormatTitleLimit - 6) \o << " ", " ", "a", " ", " ", "b" >>
    /\ ttl_title = << "," >> \o Pad(FormatTitleLimit - 6) \o << " ", "a", " ", " ", "b" >>

InitFetch ==
    /\ converters = RegisterAll(<< >>, Builtins, 1)
    /\ regPc = "ready"
    /\ bi = Len(Builtins) + 1
    /\ regCount = Len(converters)
    /\ EngIdle /\ SrvOff /\ CliOff /\ AudOff /\ TxtOff /\ DuOff /\ AnOff /\ DetOff /\ NwOff
    /\ CfgOff /\ InstOff /\ HcOff /\ TtlOff /\ NetInit /\ AccOff /\ PdfOff /\ PlgOff /\ OptOff /\ ScOff

SpecFetch == InitFetch /\ [][NetNext]_vars

\* The fetch failed: no response, or one with an error status.
FetchFailed ==
    net_remote.fault \in GetFaults \/ HttpErrorStatus(net_remote.status)

\* C22 as the specification states it: when the HTTP(S) fetch fails with a
\* connection error, a timeout or an error status, convert_uri fails with an
\* exception that "except NetworkException" catches.
C22_Original ==
    (netPc = "done" /\ FetchFailed) => IsInstance(net_outcome, "NetworkException")

\* The fetch timed out and convert_uri raised the root exception class.
C22_Witness ==
    /\ netPc = "done"
    /\ net_remote.fault = "Timeout"
    /\ net_outcome.kind = "MarkItDownException"
    /\ ~IsInstance(net_outcome, "NetworkException")

\* C23: a step that changes the registry inserts exactly one new entry,
\* immediately before the first existing entry whose priority is strictly
\* greater than the new one, at the end if there is none; the entries that
\* were there are all still there, in the order they had.
C23_InsertOnly ==
    [][converters' # converters =>
          \E k \in 1..Len(converters') :
              /\ Len(converters') = Len(converters) + 1
              /\ converters'[k].id = regCount'
              /\ \A i \in 1..Len(converters) : converters[i].id # converters'[k].id
              /\ SubSeq(converters', 1, k - 1) = SubSeq(converters, 1, k - 1)
              /\ SubSeq(converters', k + 1, Len(converters')) =
                     SubSeq(converters, k, Len(converters))
              /\ \A i \in 1..(k - 1) : converters[i].priority <= converters'[k].priority
              /\ k <= Len(converters) => converters[k].priority > converters'[k].priority
      ]_vars

\* A caller's converter of priority 0.1 was registered after the built-ins:
\* it stands behind the DOCX converter of the same priority and before the
\* plugin or image converter of a greater one.
C23_Witness ==
    \E i \in 2..(Len(converters) - 1) :
        /\ converters[i].name = "Custom"
        /\ converters[i].priority = 1
        /\ converters[i - 1].name = "DocxConverter"
        /\ converters[i + 1].priority > 1

\* What _get_stream_info_guesses considers, in the order it considers it:
\* the base descriptor if it has a MIME type or an extension, the detection
\* from the content, from the filename, from the extension and from the
\* MIME type, each where the base descriptor has the field.
GuessCandidates ==
    (IF base_info.mimetype # NoMime \/ Truthy(base_info.extension)
     THEN << base_info >> ELSE << >>)
    \o detect_from_stream(stream, magic)
    \o (IF Truthy(base_info.filename)
        THEN detect_from_filename(base_info.filename) ELSE << >>)
    \o (IF Truthy(base_info.extension)
        THEN detect_from_extension(base_info.extension) ELSE << >>)
    \o (IF base_info.mimetype # NoMime
        THEN detect_from_mimetype(base_info.mimetype) ELSE << >>)

\* Where a guess first stands among the candidates.
FirstAt(cands, g) ==
    CHOOSE j \in 1..Len(cands) :
        /\ cands[j] = g
        /\ \A k \in 1..(j - 1) : cands[k] # g

\* C24: the guess list of convert_stream is never empty; its guesses are
\* candidates in the order base, content, filename, extension, MIME type;
\* no guess equals an earlier one and a candidate is left out only if it
\* equals a guess that stands before it; with no candidate at all the list
\* is the one empty descriptor.
C24_GuessList ==
    engPc # "start" =>
        LET cands == GuessCandidates
            at == [i \in 1..Len(guesses) |->
                      IF guesses[i] \in Range(cands) THEN FirstAt(cands, guesses[i]) ELSE 0]
        IN  /\ Len(guesses) >= 1
            /\ cands = << >> => guesses = << StreamInfo(NoMime, None, None, None) >>
            /\ cands # << >> =>
                  /\ guesses[1] = cands[1]
                  /\ \A i \in 1..Len(guesses) : at[i] > 0
                  /\ \A i, k \in 1..Len(guesses) :
                         i < k => at[i] < at[k] /\ ~StreamInfoEq(guesses[i], guesses[k])
                  /\ \A j \in 1..Len(cands) :
                         \E i \in 1..Len(guesses) :
                             StreamInfoEq(guesses[i], cands[j]) /\ at[i] <= j

\* Five candidates, of which the one from the filename equals the base
\* descriptor and is left out, and at least three are kept.
C24_Witness ==
    /\ engPc = "loop"
    /\ Len(GuessCandidates) = 5
    /\ StreamInfoEq(GuessCandidates[3], base_info)
    /\ Len(guesses) >= 3
    /\ Len(guesses) < 5

InitAccepts ==
    /\ converters = RegisterAll(<< >>, Builtins, 1)
    /\ regPc = "ready"
    /\ bi = Len(Builtins) + 1
    /\ regCount = Len(converters)
    /\ EngIdle /\ SrvOff /\ CliOff /\ AudOff /\ TxtOff /\ DuOff /\ AnOff /\ DetOff /\ NwOff
    /\ CfgOff /\ InstOff /\ HcOff /\ TtlOff /\ NetOff /\ AccInit /\ PdfOff /\ PlgOff /\ OptOff /\ ScOff

SpecAccepts == InitAccepts /\ [][AccNext]_vars

\* C25: when accepts of a built-in converter has returned, true or false,
\* the stream's read position is the one it had when accepts was called.
C25_Original ==
    accPc = "returned" =>
        /\ acc_result \in { "true", "false" }
        /\ acc_pos = acc_pos0

\* TextConverter.accepts was called on a stream at position 1 whose read
\* raises: it told the position, sought the start, caught the exception of
\* the read and returned false with the stream left at its start.
C25_Witness ==
    /\ accPc = "returned"
    /\ acc_conv = "TextConverter"
    /\ acc_fault = "read"
    /\ acc_pos0 = 1
    /\ acc_current = 1
    /\ acc_result = "false"
    /\ acc_pos = 0

InitPdf ==
    /\ converters = RegisterAll(<< >>, Builtins, 1)
    /\ regPc = "ready"
    /\ bi = Len(Builtins) + 1
    /\ regCount = Len(converters)
    /\ EngIdle /\ SrvOff /\ CliOff /\ AudOff /\ TxtOff /\ DuOff /\ AnOff /\ DetOff /\ NwOff
    /\ CfgOff /\ InstOff /\ HcOff /\ TtlOff /\ NetOff /\ AccOff /\ PdfInit /\ PlgOff /\ OptOff /\ ScOff

SpecPdf == InitPdf /\ [][PdfNext]_vars

\* The server or engine was given both an endpoint and a key.
BothConfigured ==
    /\ pdf_via \in { "server", "engine" }
    /\ Truthy(pdf_config.endpoint)
    /\ Truthy(pdf_config.key)

\* C26 as the specification states it: through an engine or server
\* configured with endpoint and key the service is attempted first, local
\* extraction follows when the service failed, and MissingDependency is
\* raised exactly when neither the service nor pdfminer is available.
C26_Original ==
    (pdfPc = "done" /\ BothConfigured) =>
        /\ pdf_calls # << >> /\ pdf_calls[1] = "azure"
        /\ (pdf_world.service_fails /\ pdf_world.pdfminer) =>
               pdf_calls = << "azure", "pdfminer" >>
        /\ pdf_outcome.kind = "MissingDependencyException" =>
               ~pdf_world.pdfminer

\* The server was given endpoint and key, the converter it built has no
\* key, and the PDF was converted by pdfminer without the service being
\* attempted.
C26_Witness ==
    /\ pdfPc = "done"
    /\ pdf_via = "server"
    /\ pdf_config = [endpoint |-> "https://docintel.example", key |-> "secret"]
    /\ pdf_converter.docintel_key = None
    /\ ~pdf_converter.azure_available
    /\ pdf_calls = << "pdfminer" >>
    /\ pdf_outcome.kind = "ok"

InitPlugins ==
    /\ converters = RegisterAll(<< >>, Builtins, 1)
    /\ regPc = "ready"
    /\ bi = Len(Builtins) + 1
    /\ regCount = Len(converters)
    /\ EngIdle /\ SrvOff /\ CliOff /\ AudOff /\ TxtOff /\ DuOff /\ AnOff /\ DetOff /\ NwOff
    /\ CfgOff /\ InstOff /\ HcOff /\ TtlOff /\ NetOff /\ AccOff /\ PdfOff /\ PlgInit /\ OptOff /\ ScOff

SpecPlugins == InitPlugins /\ [][PlgNext]_vars

RegisteredNames == { name \in PluginNames : plugin_registry[name] # 0 }

\* C27 as the specification states it: every instance in the registry is
\* in the loaded list; unload_plugin of a registered name removes the entry
\* and the instance and returns true, of an unregistered name returns false
\* and changes nothing; after reload_plugins the registry holds only what
\* that reload discovered.
C27_Original ==
    plgPc = "ready" =>
        /\ \A name \in RegisteredNames : plugin_registry[name] \in Range(loaded_plugins)
        /\ (plg_last.op = "unload_plugin") =>
              IF plg_last.registry[plg_last.name] # 0
              THEN /\ plg_last.returned = TRUE
                   /\ plugin_registry[plg_last.name] = 0
                   /\ plg_last.registry[plg_last.name] \notin Range(loaded_plugins)
              ELSE /\ plg_last.returned = FALSE
                   /\ plugin_registry = plg_last.registry
                   /\ loaded_plugins = plg_last.loaded
        /\ (plg_last.op = "reload_plugins") =>
              /\ RegisteredNames = Range(plg_last.found)
              /\ \A name \in RegisteredNames :
                     plugin_registry[name] \notin Range(plg_last.loaded)

\* A second load_plugins found only beta: alpha is still registered, with
\* the instance of the first load, which is not in the loaded list.
C27_Witness ==
    /\ plgPc = "ready"
    /\ plg_last.op = "load_plugins"
    /\ plg_last.found = << "beta" >>
    /\ plugin_registry["alpha"] # 0
    /\ plugin_registry["alpha"] \notin Range(loaded_plugins)
    /\ plugin_registry["beta"] \in Range(loaded_plugins)

TextRegistered == \E c \in 1..Len(converters) : converters[c].name = "TextConverter"

\* C28: TextConverter.accepts returns true for every guess and stream,
\* whatever the bytes; so with the Text converter registered a conversion
\* ends only after TextConverter.convert was called or after a converter
\* tried before it returned a result.
C28_TextAcceptsAll ==
    /\ \A g \in 1..Len(guesses) : TextAccepts(stream, guesses[g])
    /\ \A k \in 1..Len(attempts) :
           converters[attempts[k].conv].name = "TextConverter" =>
               attempts[k].accepts = "true" /\ attempts[k].convert # "none"
    /\ (engPc = "done" /\ TextRegistered) =>
           \/ \E k \in 1..Len(attempts) :
                  /\ converters[attempts[k].conv].name = "TextConverter"
                  /\ attempts[k].convert \in { "ok", "raise" }
           \/ /\ outcome.kind = "result"
              /\ outcome.converter # "TextConverter"
              /\ outcome.guess = 1

\* A stream of the byte 0xFF under a descriptor no converter knows: the
\* five other built-ins declined, TextConverter accepted and converted.
C28_Witness ==
    /\ engPc = "done"
    /\ stream = << 255 >>
    /\ base_info = StreamInfo(<<"application", "x-unknown">>, ".xyz", None, None)
    /\ Len(attempts) = 6
    /\ \A k \in 1..5 : attempts[k].accepts = "false"
    /\ attempts[6].accepts = "true"
    /\ outcome.kind = "result"
    /\ outcome.converter = "TextConverter"

InitOptions ==
    /\ converters = RegisterAll(<< >>, Builtins, 1)
    /\ regPc = "ready"
    /\ bi = Len(Builtins) + 1
    /\ regCount = Len(converters)
    /\ EngIdle /\ SrvOff /\ CliOff /\ AudOff /\ TxtOff /\ DuOff /\ AnOff /\ DetOff /\ NwOff
    /\ CfgOff /\ InstOff /\ HcOff /\ TtlOff /\ NetOff /\ AccOff /\ PdfOff /\ PlgOff /\ OptInit /\ ScOff

SpecOptions == InitOptions /\ [][OptNext]_vars

\* The calls, up to the n-th, that set key: those that had their input and
\* gave the key in their options.
Setters(key, n) ==
    { i \in 1..n : opt_history[i].has_input /\ key \in DOMAIN opt_history[i].options }

\* The value the most recent of them left, the default if there is none.
LastSet(key, n) ==
    IF Setters(key, n) = {} THEN DefaultOptions[key]
    ELSE LET last == CHOOSE i \in Setters(key, n) : \A j \in Setters(key, n) : j <= i
         IN  opt_history[last].options[key]

\* C29: the engine's option map holds, for every key, the value of the
\* most recent call that set it, and a call that converts is processed with
\* that value of korean_optimization whether or not it gave options itself.
C29_OptionsPersist ==
    optPc = "serving" =>
        /\ \A key \in DOMAIN DefaultOptions :
               opt_options[key] = LastSet(key, Len(opt_history))
        /\ (opt_history # << >> /\ opt_history[Len(opt_history)].has_input) =>
               opt_korean = LastSet("korean_optimization", Len(opt_history))

\* The first call enabled korean_optimization, the last call gave no
\* options and was converted with it enabled.
C29_Witness ==
    /\ optPc = "serving"
    /\ Len(opt_history) >= 2
    /\ opt_history[1].has_input
    /\ opt_history[1].options = [k \in {"korean_optimization"} |-> TRUE]
    /\ opt_history[Len(opt_history)].has_input
    /\ opt_history[Len(opt_history)].options = NoOptions
    /\ opt_history[Len(opt_history)].tool = "convert_url"
    /\ opt_korean = TRUE

InitServerCommand ==
    /\ converters = RegisterAll(<< >>, Builtins, 1)
    /\ regPc = "ready"
    /\ bi = Len(Builtins) + 1
    /\ regCount = Len(converters)
    /\ EngIdle /\ SrvOff /\ CliOff /\ AudOff /\ TxtOff /\ DuOff /\ AnOff /\ DetOff /\ NwOff
    /\ CfgOff /\ InstOff /\ HcOff /\ TtlOff /\ NetOff /\ AccOff /\ PdfOff /\ PlgOff /\ OptOff /\ ScInit

SpecServerCommand == InitServerCommand /\ [][ScNext]_vars

\* C30: the enable_korean_support passed to create_server is True if
\* --korean-support was given and False if it was not, whatever the
\* configuration file and KOREAN_SUPPORT hold: the flag is never None.
C30_FlagOverrides ==
    scPc = "passed" =>
        /\ parse_korean_support(sc_argv) # PyNone
        /\ sc_kwargs.enable_korean_support
               = PyBool(\E i \in 1..Len(sc_argv) : IsKoreanSupport(sc_argv[i]))

\* The flag is absent, the file and the environment both ask for Korean
\* support, and the server is created without it.
C30_Witness ==
    /\ scPc = "passed"
    /\ sc_argv = << >>
    /\ sc_file = ObjectFile([converters |-> JObject([korean_support |-> JScalar(<< "t", "r", "u", "e" >>)])])
    /\ sc_env["KOREAN_SUPPORT"] = PyStr(<< "t", "r", "u", "e" >>)
    /\ load_config(sc_file, sc_env).config.converters.korean_support = PyBool(TRUE)
    /\ sc_kwargs.enable_korean_support = PyBool(FALSE)
====
